---- MODULE Spec2Model ----
(***************************************************************************)
(* A model of LibFS.c: an inode file system on a sector-addressed disk.    *)
(*                                                                         *)
(* The disk is a function from sector index to a sector, a sector being a  *)
(* sequence of SECTOR_SIZE cells.  One cell is one C `char`; the model     *)
(* scales sizeof(int) to one cell, so that an inode_t takes                *)
(* 2 + MAX_SECTORS_PER_FILE cells and a dirent_t takes MAX_NAME + 1 cells. *)
(* Every structure is read from and written to the cells of a sector at    *)
(* the offsets the C code computes.                                        *)
(*                                                                         *)
(* SECTOR_SIZE, TOTAL_SECTORS (LibDisk.h), MAX_FILES, MAX_SECTORS_PER_FILE *)
(* (LibFS.h), MAX_NAME and MAX_OPEN_FILES are scaled down; the layout      *)
(* macros are computed from them exactly as in LibFS.c.                    *)
(***************************************************************************)
EXTENDS Integers, Sequences, FiniteSets, TLC

SECTOR_SIZE == 16
TOTAL_SECTORS == 120
MAX_FILES == 33
MAX_SECTORS_PER_FILE == 2
MAX_NAME == 4
MAX_OPEN_FILES == 2

\* the int value of 0xdeadbeef
OS_MAGIC == 0 - 559038737

MAX_FILE_SIZE == MAX_SECTORS_PER_FILE * SECTOR_SIZE

\* sizeof(inode_t), sizeof(dirent_t) in cells
INODE_SIZE == 2 + MAX_SECTORS_PER_FILE
DIRENT_SIZE == MAX_NAME + 1

SUPERBLOCK_START_SECTOR == 0
INODE_BITMAP_START_SECTOR == 1
INODE_BITMAP_SIZE == (MAX_FILES + 7) \div 8
INODE_BITMAP_SECTORS == (INODE_BITMAP_SIZE + SECTOR_SIZE - 1) \div SECTOR_SIZE
SECTOR_BITMAP_START_SECTOR == INODE_BITMAP_START_SECTOR + INODE_BITMAP_SECTORS
SECTOR_BITMAP_SIZE == (TOTAL_SECTORS + 7) \div 8
SECTOR_BITMAP_SECTORS == (SECTOR_BITMAP_SIZE + SECTOR_SIZE - 1) \div SECTOR_SIZE
INODE_TABLE_START_SECTOR == SECTOR_BITMAP_START_SECTOR + SECTOR_BITMAP_SECTORS
INODES_PER_SECTOR == SECTOR_SIZE \div INODE_SIZE
INODE_TABLE_SECTORS == (MAX_FILES + INODES_PER_SECTOR - 1) \div INODES_PER_SECTOR
DATABLOCK_START_SECTOR == INODE_TABLE_START_SECTOR + INODE_TABLE_SECTORS
DIRENTS_PER_SECTOR == SECTOR_SIZE \div DIRENT_SIZE

\* error codes of LibFS.h, kept symbolic
E_NONE == "E_NONE"
E_GENERAL == "E_GENERAL"
E_CREATE == "E_CREATE"
E_NO_SUCH_FILE == "E_NO_SUCH_FILE"
E_TOO_MANY_OPEN_FILES == "E_TOO_MANY_OPEN_FILES"
E_BAD_FD == "E_BAD_FD"
E_NO_SPACE == "E_NO_SPACE"
E_FILE_TOO_BIG == "E_FILE_TOO_BIG"
E_SEEK_OUT_OF_BOUNDS == "E_SEEK_OUT_OF_BOUNDS"
E_FILE_IN_USE == "E_FILE_IN_USE"
E_NO_SUCH_DIR == "E_NO_SUCH_DIR"
E_DIR_NOT_EMPTY == "E_DIR_NOT_EMPTY"
E_BUFFER_TOO_SMALL == "E_BUFFER_TOO_SMALL"

\* disk, open_files and osErrno are the program's state; last is the latest
\* call with its result; live is the set of paths whose latest successful
\* create or unlink was a create; wrote holds the bytes the latest successful
\* File_Write was given; nops counts the calls made since the first FS_Boot;
\* backstore maps the name of a backing file to the image saved in it, and
\* bs_filename is the name FS_Boot copied down; callers holds, for each of
\* two callers that run bitmap_first_unused without a lock, the position in
\* the function and its local variables; got is the sequence of the values
\* these calls returned, and serial tells that no call began while another
\* was under way
VARIABLES disk, open_files, osErrno, last, live, wrote, nops, backstore, bs_filename, callers, got, serial

vars == <<disk, open_files, osErrno, last, live, wrote, nops, backstore, bs_filename, callers, got, serial>>

-----------------------------------------------------------------------------
(* C arithmetic and raw buffers *)

\* C integer division and remainder (truncation toward zero), b > 0
CDiv(a, b) == IF a >= 0 THEN a \div b ELSE 0 - ((0 - a) \div b)
CMod(a, b) == a - b * CDiv(a, b)

Pow2(n) == IF n = 0 THEN 1 ELSE IF n = 1 THEN 2 ELSE IF n = 2 THEN 4
           ELSE IF n = 3 THEN 8 ELSE IF n = 4 THEN 16 ELSE IF n = 5 THEN 32
           ELSE IF n = 6 THEN 64 ELSE 128

ZeroSector == [k \in 1..SECTOR_SIZE |-> 0]

\* the cell at 0-based offset k of a sector buffer; a read outside the
\* buffer yields the value g (whatever the stack holds there)
At(buf, k, g) == IF k >= 0 /\ k < SECTOR_SIZE THEN buf[k + 1] ELSE g

\* store v at 0-based offset k; a store outside the buffer misses it
Put(buf, k, v) == IF k >= 0 /\ k < SECTOR_SIZE THEN [buf EXCEPT ![k + 1] = v] ELSE buf

\* memset(buf + off, v, n)
Memset(buf, off, v, n) ==
  [k \in 1..SECTOR_SIZE |-> IF k - 1 >= off /\ k - 1 < off + n THEN v ELSE buf[k]]

\* Disk_Read / Disk_Write succeed exactly on sectors of the device
DiskOK(s) == s >= 0 /\ s < TOTAL_SECTORS
Disk_Write(d, s, buf) == [d EXCEPT ![s] = buf]

-----------------------------------------------------------------------------
(* bitmaps *)

\* mask[n] of set_NthBit / isNthSet
BitMask(n) == Pow2(7 - n)

isNthSet(c, n) == (c \div BitMask(n)) % 2 = 1

set_NthBit(c, n) == IF isNthSet(c, n) THEN c ELSE c + BitMask(n)

\* one pass of the for loop of bitmap_init over sector start + j
RECURSIVE bitmap_init_loop(_, _, _, _, _, _, _)
bitmap_init_loop(d, start, num, j, nBytes, remain_bits, last_block) ==
  IF j >= num THEN d
  ELSE
    LET lb == IF nBytes < SECTOR_SIZE THEN 1 ELSE last_block
        i == start + j
    IN IF ~DiskOK(i) THEN d
       ELSE IF nBytes < 0
         THEN bitmap_init_loop(Disk_Write(d, i, ZeroSector), start, num, j + 1,
                               nBytes, remain_bits, lb)
       ELSE IF lb = 0
         THEN bitmap_init_loop(Disk_Write(d, i, Memset(ZeroSector, 0, 1, SECTOR_SIZE)),
                               start, num, j + 1, nBytes - SECTOR_SIZE, remain_bits, lb)
       ELSE IF remain_bits > 0
         THEN bitmap_init_loop(
                Disk_Write(d, i, Put(Memset(ZeroSector, 0, 255, nBytes), nBytes,
                                     256 - Pow2(8 - remain_bits))),
                start, num, j + 1, 0 - 1, remain_bits, lb)
       ELSE bitmap_init_loop(Disk_Write(d, i, Memset(ZeroSector, 0, 255, nBytes)),
                             start, num, j + 1, nBytes, remain_bits, lb)

\* a variant of bitmap_init that rounds the prefix up to whole bytes
bitmap_init_bytes(d, start, num, nbits) ==
  bitmap_init_loop(d, start, num, 0, (nbits + 7) \div 8, 0, 0)

bitmap_init(d, start, num, nbits) ==
  bitmap_init_loop(d, start, num, 0, nbits \div 8, nbits % 8, 0)

\* the bit positions one sector's scan of bitmap_first_unused visits
ScanBits(nbits) ==
  IF nbits \div 8 < SECTOR_SIZE THEN (nbits \div 8) * 8 + (nbits % 8)
  ELSE SECTOR_SIZE * 8

\* first position p < n whose bit is clear in buf, or -1
FirstClear(buf, n) ==
  LET clear == {p \in 0..(n - 1) : ~isNthSet(buf[p \div 8 + 1], p % 8)}
  IN IF clear = {} THEN 0 - 1
     ELSE CHOOSE p \in clear : \A q \in clear : p <= q

\* bitmap_first_unused found bit p of sector sec clear: set it, write the
\* sector back, return the position counted over the sectors scanned
first_unused_found(d, sec, p, scanned) ==
  [ret |-> scanned + p,
   disk |-> Disk_Write(d, sec, [d[sec] EXCEPT ![p \div 8 + 1] =
                                  set_NthBit(d[sec][p \div 8 + 1], p % 8)])]

RECURSIVE first_unused_loop(_, _, _, _, _, _)
first_unused_loop(d, start, num, j, nbits, scanned) ==
  IF j >= num THEN [ret |-> 0 - 1, disk |-> d]
  ELSE IF ~DiskOK(start + j) THEN [ret |-> 0 - 1, disk |-> d]
  ELSE IF FirstClear(d[start + j], ScanBits(nbits)) >= 0
    THEN first_unused_found(d, start + j, FirstClear(d[start + j], ScanBits(nbits)), scanned)
    ELSE first_unused_loop(d, start, num, j + 1, nbits, scanned + ScanBits(nbits))

\* a variant of bitmap_first_unused that returns the position and leaves the
\* bit clear
bitmap_first_unused_clear(d, start, num, nbits) ==
  [ret |-> first_unused_loop(d, start, num, 0, nbits, 0).ret, disk |-> d]

\* bitmap_first_unused: [ret, disk]
bitmap_first_unused(d, start, num, nbits) ==
  first_unused_loop(d, start, num, 0, nbits, 0)

\* the byte index left by the while loop of bitmap_reset
RECURSIVE ResetByte(_)
ResetByte(nBytes) ==
  IF nBytes > SECTOR_SIZE THEN ResetByte(nBytes - SECTOR_SIZE) ELSE nBytes

\* bitmap_reset: [ret, disk]
bitmap_reset(d, start, num, ibit) ==
  LET nBytes == ibit \div 8
      remain_bits == ibit % 8
      b == ResetByte(nBytes)
  IN IF nBytes > SECTOR_SIZE * num THEN [ret |-> 0 - 1, disk |-> d]
     ELSE IF ~DiskOK(start) THEN [ret |-> 0 - 1, disk |-> d]
     ELSE LET buf == d[start]
              c == At(buf, b, 0)
              nc == IF isNthSet(c, remain_bits) THEN c - BitMask(remain_bits) ELSE c
          IN [ret |-> 0, disk |-> Disk_Write(d, start, Put(buf, b, nc))]

-----------------------------------------------------------------------------
(* the volume FS_Boot formats when the backing store does not exist *)

RECURSIVE FormatInodeTable(_, _)
FormatInodeTable(d, i) ==
  IF i >= INODE_TABLE_SECTORS THEN d
  ELSE FormatInodeTable(
         Disk_Write(d, INODE_TABLE_START_SECTOR + i,
                    IF i = 0 THEN Put(Put(ZeroSector, 0, 0), 1, 1) ELSE ZeroSector),
         i + 1)

Format(d) ==
  LET d1 == Disk_Write(d, SUPERBLOCK_START_SECTOR, Put(ZeroSector, 0, OS_MAGIC))
      d2 == bitmap_init(d1, INODE_BITMAP_START_SECTOR, INODE_BITMAP_SECTORS, 1)
      d3 == bitmap_init(d2, SECTOR_BITMAP_START_SECTOR, SECTOR_BITMAP_SECTORS,
                        DATABLOCK_START_SECTOR)
  IN FormatInodeTable(d3, 0)

-----------------------------------------------------------------------------
(* inode and dirent records inside sector buffers *)

\* the sector of the inode table holding inode k, and k's cell offset in it
InodeSector(k) == INODE_TABLE_START_SECTOR + CDiv(k, INODES_PER_SECTOR)
InodeOffset(k, sector) ==
  (k - (sector - INODE_TABLE_START_SECTOR) * INODES_PER_SECTOR) * INODE_SIZE

\* fields of the inode_t at cell offset off of buf
InodeSizeAt(buf, off) == At(buf, off, 0)
InodeTypeAt(buf, off) == At(buf, off + 1, 0)
InodeDataAt(buf, off, j, g) == At(buf, off + 2 + j, g)
SetInodeSize(buf, off, v) == Put(buf, off, v)
SetInodeType(buf, off, v) == Put(buf, off + 1, v)
SetInodeData(buf, off, j, v) == Put(buf, off + 2 + j, v)

\* the dirent_t number e of a sector buffer: fname cells, then the inode
DirentOffset(e) == e * DIRENT_SIZE
DirentInodeAt(buf, e) == At(buf, DirentOffset(e) + MAX_NAME, 0)
DirentCellsAt(buf, e) == [k \in 1..DIRENT_SIZE |-> At(buf, DirentOffset(e) + k - 1, 0)]

\* strncpy(dst, name, MAX_NAME): the characters, then NUL padding
Strncpy(name) == [k \in 1..MAX_NAME |-> IF k <= Len(name) THEN name[k] ELSE 0]

\* the C string held in cells (up to the first NUL)
RECURSIVE CString(_)
CString(cells) ==
  IF cells = <<>> \/ Head(cells) = 0 THEN <<>> ELSE <<Head(cells)>> \o CString(Tail(cells))

\* a dirent_t value as cells
Dirent(name, inode) == Strncpy(name) \o <<inode>>

\* store the dirent cells c as entry e of buf
PutDirent(buf, e, c) ==
  [k \in 1..SECTOR_SIZE |->
     IF k - 1 >= DirentOffset(e) /\ k - 1 < DirentOffset(e) + DIRENT_SIZE
       THEN c[k - DirentOffset(e)] ELSE buf[k]]

\* !strcmp(((dirent_t*)buf)[e].fname, fname)
NameMatches(buf, e, fname) ==
  CString([k \in 1..(SECTOR_SIZE - DirentOffset(e)) |-> buf[DirentOffset(e) + k]]) = fname

-----------------------------------------------------------------------------
(* path resolution *)

IsAlnum(c) == (c >= 48 /\ c <= 57) \/ (c >= 65 /\ c <= 90) \/ (c >= 97 /\ c <= 122)

\* illegal_filename: TRUE iff the name is illegal
illegal_filename(name) ==
  LET bad == {i \in 1..Len(name) :
                ~(IsAlnum(name[i]) \/ name[i] = 46 \/ name[i] = 45 \/ name[i] = 95)}
  IN bad # {} \/ Len(name) > MAX_NAME - 1

\* the tokens strsep(&lpath, "/") returns for the string s, empty ones included
RECURSIVE Strsep(_, _)
Strsep(s, tok) ==
  IF s = <<>> THEN <<tok>>
  ELSE IF Head(s) = 47 THEN <<tok>> \o Strsep(Tail(s), <<>>)
  ELSE Strsep(Tail(s), Append(tok, Head(s)))

\* the scan of the sector of dirent group idx in find_child_inode;
\* -1: no entry of this sector matches
FindInGroup(buf, fname, nentries) ==
  LET hits == {i \in 0..(DIRENTS_PER_SECTOR - 1) : i <= nentries /\ NameMatches(buf, i, fname)}
  IN IF hits = {} THEN 0 - 1 ELSE CHOOSE i \in hits : \A j \in hits : i <= j

\* find_child_inode found the entry naming inode child: load the sector of
\* the inode table holding it unless it is the cached one
find_child_found(child, csec) ==
  IF InodeSector(child) # csec /\ ~DiskOK(InodeSector(child))
    THEN [ret |-> 0 - 2, csec |-> InodeSector(child)]
    ELSE [ret |-> child, csec |-> InodeSector(child)]

RECURSIVE find_child_loop(_, _, _, _, _, _, _)
find_child_loop(d, pbuf, poff, fname, idx, nentries, csec) ==
  IF nentries <= 0 THEN [ret |-> 0 - 1, csec |-> csec]
  ELSE
    LET sec == InodeDataAt(pbuf, poff, idx, 0)
    IN IF ~DiskOK(sec) THEN [ret |-> 0 - 2, csec |-> csec]
       ELSE IF FindInGroup(d[sec], fname, nentries) >= 0
         THEN find_child_found(
                DirentInodeAt(d[sec], FindInGroup(d[sec], fname, nentries)), csec)
         ELSE find_child_loop(d, pbuf, poff, fname, idx + 1,
                              nentries - DIRENTS_PER_SECTOR, csec)

\* find_child_inode: [ret, csec]; the cached buffer is the disk's sector csec
find_child_inode(d, parent_inode, fname, csec) ==
  IF InodeTypeAt(d[csec], InodeOffset(parent_inode, csec)) # 1
    THEN [ret |-> 0 - 2, csec |-> csec]
    ELSE find_child_loop(d, d[csec], InodeOffset(parent_inode, csec), fname, 0,
                         InodeSizeAt(d[csec], InodeOffset(parent_inode, csec)), csec)

\* "no value": follow_path did not store to *last_inode / last_filename
UNSET == "unset"

\* the while loop of follow_path over the remaining tokens; c is the latest
\* result of find_child_inode: the child inode c.ret and the cached sector
RECURSIVE follow_loop(_, _, _, _, _)
follow_loop(d, toks, parent, c, lastname) ==
  IF toks = <<>>
    THEN IF c.ret < 0 - 1
           THEN [ret |-> 0 - 1, set |-> FALSE, last_inode |-> 0, last_filename |-> lastname]
           ELSE [ret |-> IF parent = 0 - 1 /\ c.ret = 0 THEN 0 ELSE parent,
                 set |-> TRUE, last_inode |-> c.ret, last_filename |-> lastname]
  ELSE IF Head(toks) = <<>> THEN follow_loop(d, Tail(toks), parent, c, lastname)
  ELSE IF illegal_filename(Head(toks)) \/ c.ret < 0
    THEN [ret |-> 0 - 1, set |-> FALSE, last_inode |-> 0, last_filename |-> lastname]
  ELSE follow_loop(d, Tail(toks), c.ret, find_child_inode(d, c.ret, Head(toks), c.csec),
                   Head(toks))

\* follow_path: [ret, set, last_inode, last_filename]; set is FALSE when the
\* function returns without storing to *last_inode
follow_path(d, path) ==
  IF path = <<>> \/ Head(path) # 47
    THEN [ret |-> 0 - 1, set |-> FALSE, last_inode |-> 0, last_filename |-> UNSET]
    ELSE follow_loop(d, Strsep(Tail(path), <<>>), 0 - 1,
                     [ret |-> 0, csec |-> INODE_TABLE_START_SECTOR], UNSET)

-----------------------------------------------------------------------------
(* creating and removing inodes *)

\* add_inode, last part: write the dirent as entry e of the group sector gsec
\* (whose content is dbuf), then the parent inode with its size incremented
add_inode_dirent(d, psec, pbuf, poff, gsec, dbuf, e, file, child_inode) ==
  IF ~DiskOK(gsec) THEN [ret |-> 0 - 1, disk |-> d]
  ELSE [ret |-> 0,
        disk |-> Disk_Write(Disk_Write(d, gsec, PutDirent(dbuf, e, Dirent(file, child_inode))),
                            psec, SetInodeSize(pbuf, poff, InodeSizeAt(pbuf, poff) + 1))]

\* add_inode, the branch that needs a new dirent sector; s is the result of
\* bitmap_first_unused on the sector bitmap, pbuf the parent's inode sector
add_inode_newsec(s, psec, pbuf, poff, group, file, child_inode) ==
  IF s.ret < 0 THEN [ret |-> 0 - 1, disk |-> s.disk]
  ELSE add_inode_dirent(s.disk, psec, SetInodeData(pbuf, poff, group, s.ret), poff,
                        s.ret, ZeroSector,
                        InodeSizeAt(pbuf, poff) - group * DIRENTS_PER_SECTOR,
                        file, child_inode)

\* add_inode, middle part: load the parent inode and find the dirent group
add_inode_parent(d, parent_inode, file, child_inode) ==
  LET psec == InodeSector(parent_inode)
      poff == InodeOffset(parent_inode, psec)
      size == InodeSizeAt(d[psec], poff)
      group == CDiv(size, DIRENTS_PER_SECTOR)
  IN IF ~DiskOK(psec) THEN [ret |-> 0 - 1, disk |-> d]
     ELSE IF InodeTypeAt(d[psec], poff) # 1 THEN [ret |-> 0 - 2, disk |-> d]
     ELSE IF group * DIRENTS_PER_SECTOR = size
       THEN add_inode_newsec(
              bitmap_first_unused(d, SECTOR_BITMAP_START_SECTOR, SECTOR_BITMAP_SECTORS,
                                  SECTOR_BITMAP_SIZE),
              psec, d[psec], poff, group, file, child_inode)
       ELSE add_inode_dirent(d, psec, d[psec], poff,
                             InodeDataAt(d[psec], poff, group, 0),
                             d[InodeDataAt(d[psec], poff, group, 0)],
                             size - group * DIRENTS_PER_SECTOR, file, child_inode)

\* add_inode, first part: a is the result of bitmap_first_unused on the inode
\* bitmap; clear the child inode, set its type and write its sector
add_inode_child(a, type, parent_inode, file) ==
  LET csec == InodeSector(a.ret)
      coff == InodeOffset(a.ret, csec)
  IN IF a.ret < 0 THEN [ret |-> 0 - 1, disk |-> a.disk]
     ELSE IF ~DiskOK(csec) THEN [ret |-> 0 - 1, disk |-> a.disk]
     ELSE add_inode_parent(
            Disk_Write(a.disk, csec,
                       SetInodeType(Memset(a.disk[csec], coff, 0, INODE_SIZE), coff, type)),
            parent_inode, file, a.ret)

\* add_inode: [ret, disk]
add_inode(d, type, parent_inode, file) ==
  add_inode_child(bitmap_first_unused(d, INODE_BITMAP_START_SECTOR, INODE_BITMAP_SECTORS,
                                      INODE_BITMAP_SIZE),
                  type, parent_inode, file)

\* create_file_or_directory after add_inode returned a
create_added(a) ==
  IF a.ret >= 0 THEN [ret |-> 0, errno |-> UNSET, disk |-> a.disk]
  ELSE [ret |-> 0 - 1, errno |-> E_CREATE, disk |-> a.disk]

\* a variant of create_followed that takes only the root for an existing path
create_followed_blind(d, type, f) ==
  IF f.ret >= 0
    THEN IF f.last_inode = 0
           THEN [ret |-> 0 - 1, errno |-> E_CREATE, disk |-> d]
           ELSE create_added(add_inode(d, type, f.ret, f.last_filename))
    ELSE [ret |-> 0 - 1, errno |-> E_CREATE, disk |-> d]

\* create_file_or_directory after follow_path returned f
create_followed(d, type, f) ==
  IF f.ret >= 0
    THEN IF f.last_inode >= 0
           THEN [ret |-> 0 - 1, errno |-> E_CREATE, disk |-> d]
           ELSE create_added(add_inode(d, type, f.ret, f.last_filename))
    ELSE [ret |-> 0 - 1, errno |-> E_CREATE, disk |-> d]

\* create_file_or_directory: [ret, errno, disk]
create_file_or_directory(d, type, pathname) ==
  create_followed(d, type, follow_path(d, pathname))

\* the loop of remove_inode that returns a file's data sectors to the bitmap
RECURSIVE reclaim_loop(_, _, _, _)
reclaim_loop(d, cbuf, coff, i) ==
  IF i >= MAX_SECTORS_PER_FILE THEN d
  ELSE LET sec == InodeDataAt(cbuf, coff, i, 0)
       IN reclaim_loop(
            IF sec > 0
              THEN bitmap_reset(d, SECTOR_BITMAP_START_SECTOR, SECTOR_BITMAP_SECTORS, sec).disk
              ELSE d,
            cbuf, coff, i + 1)

\* the first entry of buf whose inode field equals child_inode, or -1
MatchInGroup(buf, child_inode) ==
  LET hits == {e \in 0..(DIRENTS_PER_SECTOR - 1) : DirentInodeAt(buf, e) = child_inode}
  IN IF hits = {} THEN 0 - 1 ELSE CHOOSE e \in hits : \A j \in hits : e <= j

\* what the swap stores over the removed entry: strncpy of the last dirent's
\* name, and its inode
SwapCells(lastcells) ==
  Strncpy(CString(SubSeq(lastcells, 1, MAX_NAME))) \o <<lastcells[DIRENT_SIZE]>>

\* the group loop of remove_inode: [ret, disk]; ret 0 when the loop ends
\* (entry swapped or not found), -1 when a sector read or write fails
RECURSIVE swap_loop(_, _, _, _, _, _)
swap_loop(d, pbuf, poff, child_inode, lastcells, group) ==
  IF group >= MAX_SECTORS_PER_FILE THEN [ret |-> 0, disk |-> d]
  ELSE LET sec == InodeDataAt(pbuf, poff, group, 0)
       IN IF ~DiskOK(sec) THEN [ret |-> 0 - 1, disk |-> d]
          ELSE IF MatchInGroup(d[sec], child_inode) >= 0
            THEN [ret |-> 0,
                  disk |-> Disk_Write(d, sec, PutDirent(d[sec], MatchInGroup(d[sec], child_inode),
                                                        SwapCells(lastcells)))]
            ELSE swap_loop(d, pbuf, poff, child_inode, lastcells, group + 1)

\* the dirent remove_inode takes for the last one: entry offset of the sector
\* buffer buf, or, for offset -1, the memory in front of the buffer (g)
LastDirent(buf, offset, g) ==
  IF offset >= 0 THEN DirentCellsAt(buf, offset) ELSE [k \in 1..DIRENT_SIZE |-> g]

\* remove_inode, the end: w is the result of the group loop; decrement the
\* parent's size and write its inode sector
remove_inode_swapped(w, psec, pbuf, poff) ==
  IF w.ret < 0 THEN [ret |-> 0 - 1, disk |-> w.disk]
  ELSE [ret |-> 0,
        disk |-> Disk_Write(w.disk, psec,
                            SetInodeSize(pbuf, poff, InodeSizeAt(pbuf, poff) - 1))]

\* remove_inode, second part: load the parent and swap the child's dirent
\* with the last one.  The stores to the last dirent go to a buffer that is
\* never written back
remove_inode_parent(d, parent_inode, child_inode, g) ==
  LET psec == InodeSector(parent_inode)
      poff == InodeOffset(parent_inode, psec)
      size == InodeSizeAt(d[psec], poff)
      last_group == CDiv(size, DIRENTS_PER_SECTOR)
      last_sector == InodeDataAt(d[psec], poff, last_group, g)
      offset == size - last_group * DIRENTS_PER_SECTOR - 1
  IN IF ~DiskOK(psec) THEN [ret |-> 0 - 1, disk |-> d]
     ELSE IF InodeTypeAt(d[psec], poff) # 1 THEN [ret |-> 0 - 2, disk |-> d]
     ELSE IF size > 1 /\ ~DiskOK(last_sector) THEN [ret |-> 0 - 1, disk |-> d]
     ELSE remove_inode_swapped(
            IF size > 1
              THEN swap_loop(d, d[psec], poff, child_inode,
                             LastDirent(d[last_sector], offset, g), 0)
              ELSE [ret |-> 0, disk |-> d],
            psec, d[psec], poff)

\* a variant of remove_inode that does not test whether a directory is empty
remove_inode_force(d, type, parent_inode, child_inode, g) ==
  LET csec == InodeSector(child_inode)
      coff == InodeOffset(child_inode, csec)
      ctype == InodeTypeAt(d[csec], coff)
  IN IF ~DiskOK(csec) THEN [ret |-> 0 - 1, disk |-> d]
     ELSE IF ctype # type THEN [ret |-> 0 - 3, disk |-> d]
     ELSE remove_inode_parent(
            bitmap_reset(
              Disk_Write(IF ctype = 0 THEN reclaim_loop(d, d[csec], coff, 0) ELSE d,
                         csec, Memset(d[csec], coff, 0, INODE_SIZE)),
              INODE_BITMAP_START_SECTOR, INODE_BITMAP_SECTORS, child_inode).disk,
            parent_inode, child_inode, g)

\* remove_inode: [ret, disk].  g is the content of the memory in front of
\* last_dirent_buffer, which the code reads as the last dirent when the
\* parent's size is a multiple of DIRENTS_PER_SECTOR (offset -1)
remove_inode(d, type, parent_inode, child_inode, g) ==
  LET csec == InodeSector(child_inode)
      coff == InodeOffset(child_inode, csec)
      ctype == InodeTypeAt(d[csec], coff)
  IN IF ~DiskOK(csec) THEN [ret |-> 0 - 1, disk |-> d]
     ELSE IF ctype # type THEN [ret |-> 0 - 3, disk |-> d]
     ELSE IF ctype = 1 /\ InodeSizeAt(d[csec], coff) > 0 THEN [ret |-> 0 - 2, disk |-> d]
     ELSE remove_inode_parent(
            bitmap_reset(
              Disk_Write(IF ctype = 0 THEN reclaim_loop(d, d[csec], coff, 0) ELSE d,
                         csec, Memset(d[csec], coff, 0, INODE_SIZE)),
              INODE_BITMAP_START_SECTOR, INODE_BITMAP_SECTORS, child_inode).disk,
            parent_inode, child_inode, g)

\* the osErrno File_Unlink / Dir_Unlink set for a result of remove_inode
RemoveErrno(result) ==
  IF result = 0 THEN UNSET
  ELSE IF result = 0 - 2 THEN E_DIR_NOT_EMPTY
  ELSE E_GENERAL

-----------------------------------------------------------------------------
(* the open file table *)

ClosedFile == [inode |-> 0, size |-> 0, pos |-> 0]

FDs == 0..(MAX_OPEN_FILES - 1)

\* a variant of is_file_open that looks at the first slot only
is_file_open_first(of, inode) == of[0].inode = inode

\* is_file_open
is_file_open(of, inode) == \E i \in FDs : of[i].inode = inode

\* a variant of new_file_fd that scans from the last slot down
new_file_fd_last(of) ==
  LET free == {i \in FDs : of[i].inode <= 0}
  IN IF free = {} THEN 0 - 1 ELSE CHOOSE i \in free : \A j \in free : i >= j

\* new_file_fd: the first slot whose inode is <= 0, or -1
new_file_fd(of) ==
  LET free == {i \in FDs : of[i].inode <= 0}
  IN IF free = {} THEN 0 - 1 ELSE CHOOSE i \in free : \A j \in free : i <= j

-----------------------------------------------------------------------------
(* file input and output *)

\* memcpy(buf + dst, buf + src, n) inside one sector buffer.  Copying a range
\* onto itself changes nothing; a cell whose source lies outside the buffer
\* or inside the range being written receives g (the copy is undefined there)
Memcpy(buf, dst, src, n, g) ==
  IF dst = src THEN buf
  ELSE [k \in 1..SECTOR_SIZE |->
          IF k - 1 >= dst /\ k - 1 < dst + n
            THEN LET from == src + (k - 1 - dst)
                 IN IF from >= 0 /\ from < SECTOR_SIZE /\ ~(from >= dst /\ from < dst + n)
                      THEN buf[from + 1] ELSE g
            ELSE buf[k]]

\* the for loop of File_Read: [ret, errno, pos, top]; ret 0 when the loop
\* ends; top is the highest i for which the loop reached child->data[i], or
\* one less than its first i when it made no pass
RECURSIVE read_loop(_, _, _, _, _, _, _, _, _)
read_loop(d, ibuf, ioff, i, stop, pos, bytes_to_read, sector_bytes, g) ==
  IF i >= stop THEN [ret |-> 0, errno |-> UNSET, pos |-> pos, top |-> i - 1]
  ELSE IF i > MAX_SECTORS_PER_FILE
    THEN [ret |-> 0 - 1, errno |-> E_FILE_TOO_BIG, pos |-> pos, top |-> i - 1]
  ELSE IF ~DiskOK(InodeDataAt(ibuf, ioff, i, g))
    THEN [ret |-> 0 - 1, errno |-> E_GENERAL, pos |-> pos, top |-> i]
  ELSE read_loop(d, ibuf, ioff, i + 1, stop, pos + sector_bytes,
                 bytes_to_read - sector_bytes,
                 IF bytes_to_read - sector_bytes < SECTOR_SIZE
                   THEN bytes_to_read - sector_bytes ELSE SECTOR_SIZE, g)

\* File_Read after its loop returned r
File_Read_end(r, bytes_read, ubuf) ==
  IF r.ret < 0 THEN [ret |-> 0 - 1, errno |-> r.errno, pos |-> r.pos, buf |-> ubuf, top |-> r.top]
  ELSE [ret |-> bytes_read, errno |-> UNSET, pos |-> r.pos, buf |-> ubuf, top |-> r.top]

\* File_Read: [ret, errno, pos, buf, top]; ubuf is the caller's buffer, which the
\* code never stores to (its memcpy copies inside the local sector buffer)
File_Read_fn(d, of, fd, ubuf, size, g) ==
  LET f == of[fd]
      end_of_read == IF f.pos + size > f.size THEN f.size ELSE f.pos + size
      isec == InodeSector(f.inode)
      ioff == InodeOffset(f.inode, isec)
      bytes_to_read == end_of_read - f.pos
      offset_sector_toLoad == CDiv(f.pos, SECTOR_SIZE)
      sector_index == CMod(f.pos, SECTOR_SIZE)
  IN IF ~is_file_open(of, f.inode)
       THEN [ret |-> 0 - 1, errno |-> E_BAD_FD, pos |-> f.pos, buf |-> ubuf, top |-> 0 - 1]
     ELSE IF ~DiskOK(isec) THEN [ret |-> 0 - 1, errno |-> UNSET, pos |-> f.pos, buf |-> ubuf, top |-> 0 - 1]
     ELSE IF InodeTypeAt(d[isec], ioff) # 0
       THEN [ret |-> 0 - 1, errno |-> E_GENERAL, pos |-> f.pos, buf |-> ubuf, top |-> 0 - 1]
     ELSE IF f.size <= f.pos THEN [ret |-> 0, errno |-> UNSET, pos |-> f.pos, buf |-> ubuf, top |-> 0 - 1]
     ELSE File_Read_end(
            read_loop(d, d[isec], ioff, offset_sector_toLoad,
                      offset_sector_toLoad
                        + CDiv(end_of_read - (SECTOR_SIZE - sector_index), SECTOR_SIZE) + 1,
                      f.pos, bytes_to_read,
                      IF bytes_to_read < SECTOR_SIZE THEN bytes_to_read
                      ELSE SECTOR_SIZE - sector_index, g),
            bytes_to_read, ubuf)

\* the for loop of File_Write: [ret, errno, disk, ibuf, pos, top], top as in
\* read_loop
RECURSIVE write_loop(_, _, _, _, _, _, _, _, _, _, _)

\* one pass of the loop for data sector i; a is [ret |-> child->data[i],
\* disk |-> the disk] after the allocation of the sector, fresh tells
\* whether it was allocated in this pass
write_sector(a, fresh, ibuf, ioff, i, stop, pos, sector_index, buffer_index, remainder_bytes, sector_bytes, g) ==
  IF fresh /\ a.ret < 0
    THEN [ret |-> 0 - 1, errno |-> E_NO_SPACE, disk |-> a.disk,
          ibuf |-> SetInodeData(ibuf, ioff, i, a.ret), pos |-> pos, top |-> i]
  ELSE IF ~DiskOK(a.ret)
    THEN [ret |-> 0 - 1, errno |-> E_GENERAL, disk |-> a.disk,
          ibuf |-> SetInodeData(ibuf, ioff, i, a.ret), pos |-> pos, top |-> i]
  ELSE write_loop(
         Disk_Write(a.disk, a.ret,
                    Memcpy(a.disk[a.ret], sector_index, buffer_index, sector_bytes, g)),
         SetInodeData(ibuf, ioff, i, a.ret), ioff, i + 1, stop, pos + sector_bytes,
         sector_index, buffer_index + sector_bytes, remainder_bytes - sector_bytes,
         IF remainder_bytes - sector_bytes < SECTOR_SIZE
           THEN remainder_bytes - sector_bytes ELSE SECTOR_SIZE, g)

write_loop(d, ibuf, ioff, i, stop, pos, sector_index, buffer_index, remainder_bytes, sector_bytes, g) ==
  IF i >= stop
    THEN [ret |-> 0, errno |-> UNSET, disk |-> d, ibuf |-> ibuf, pos |-> pos, top |-> i - 1]
  ELSE IF i > MAX_SECTORS_PER_FILE
    THEN [ret |-> 0 - 1, errno |-> E_FILE_TOO_BIG, disk |-> d, ibuf |-> ibuf, pos |-> pos,
          top |-> i - 1]
  ELSE write_sector(
         IF InodeDataAt(ibuf, ioff, i, g) = 0
           THEN bitmap_first_unused(d, SECTOR_BITMAP_START_SECTOR, SECTOR_BITMAP_SECTORS,
                                    SECTOR_BITMAP_SIZE)
           ELSE [ret |-> InodeDataAt(ibuf, ioff, i, g), disk |-> d],
         InodeDataAt(ibuf, ioff, i, g) = 0,
         ibuf, ioff, i, stop, pos, sector_index, buffer_index, remainder_bytes,
         sector_bytes, g)

\* File_Write after its loop returned w: the new size is the cursor
File_Write_end(w, f, isec, ioff, size) ==
  IF w.ret < 0
    THEN [ret |-> 0 - 1, errno |-> w.errno, disk |-> w.disk, size |-> f.size, pos |-> w.pos,
          top |-> w.top]
    ELSE [ret |-> size, errno |-> UNSET,
          disk |-> Disk_Write(w.disk, isec, SetInodeSize(w.ibuf, ioff, w.pos)),
          size |-> w.pos, pos |-> w.pos, top |-> w.top]

\* File_Write: [ret, errno, disk, size, pos, top]; the bytes of the caller's buffer
\* are never read (the memcpy copies inside the local sector buffer)
File_Write_fn(d, of, fd, size, g) ==
  LET f == of[fd]
      isec == InodeSector(f.inode)
      ioff == InodeOffset(f.inode, isec)
      sector_index == CMod(f.pos, SECTOR_SIZE)
  IN IF ~is_file_open(of, f.inode)
       THEN [ret |-> 0 - 1, errno |-> E_BAD_FD, disk |-> d, size |-> f.size, pos |-> f.pos,
             top |-> 0 - 1]
     ELSE IF f.size + size > MAX_FILE_SIZE
       THEN [ret |-> 0 - 1, errno |-> E_FILE_TOO_BIG, disk |-> d, size |-> f.size, pos |-> f.pos,
             top |-> 0 - 1]
     ELSE IF ~DiskOK(isec)
       THEN [ret |-> 0 - 1, errno |-> UNSET, disk |-> d, size |-> f.size, pos |-> f.pos,
             top |-> 0 - 1]
     ELSE IF InodeTypeAt(d[isec], ioff) # 0
       THEN [ret |-> 0 - 1, errno |-> E_GENERAL, disk |-> d, size |-> f.size, pos |-> f.pos,
             top |-> 0 - 1]
     ELSE File_Write_end(
            write_loop(d, d[isec], ioff, CDiv(f.pos, SECTOR_SIZE),
                       CDiv(size - (SECTOR_SIZE - sector_index), SECTOR_SIZE) + 1,
                       f.pos, sector_index, 0,
                       IF MAX_FILE_SIZE < f.pos + size THEN MAX_FILE_SIZE - f.pos ELSE size,
                       SECTOR_SIZE - sector_index, g),
            f, isec, ioff, size)

-----------------------------------------------------------------------------
(* directory listing *)

\* Dir_Size for the inode follow_path found: [ret, errno]
Dir_Size_fn(d, child_inode) ==
  IF child_inode >= 0
    THEN LET isec == InodeSector(child_inode)
             ioff == InodeOffset(child_inode, isec)
         IN IF ~DiskOK(isec) THEN [ret |-> 0 - 1, errno |-> E_GENERAL]
            ELSE IF InodeTypeAt(d[isec], ioff) = 0 THEN [ret |-> 0 - 1, errno |-> E_GENERAL]
            ELSE [ret |-> InodeSizeAt(d[isec], ioff) * DIRENT_SIZE, errno |-> UNSET]
    ELSE [ret |-> 0 - 1, errno |-> E_GENERAL]

\* memcpy(buffer + j * sizeof(dirent_t), current_dirent, sizeof(dirent_t)) into
\* the caller's buffer; stores past its end miss it
CopyDirent(ubuf, j, cells) ==
  [k \in 1..Len(ubuf) |->
     IF k - 1 >= DirentOffset(j) /\ k - 1 < DirentOffset(j) + DIRENT_SIZE
       THEN cells[k - DirentOffset(j)] ELSE ubuf[k]]

\* the inner loop of Dir_Read over the entries of one sector: [counter, buf]
RECURSIVE dir_read_group(_, _, _, _, _)
dir_read_group(sbuf, ubuf, j, counter, size) ==
  IF j < DIRENTS_PER_SECTOR /\ counter < size
    THEN dir_read_group(sbuf, CopyDirent(ubuf, j, DirentCellsAt(sbuf, j)), j + 1,
                        counter + 1, size)
    ELSE [counter |-> counter, buf |-> ubuf]

\* the outer loop of Dir_Read: [ret, errno, buf]
RECURSIVE dir_read_loop(_, _, _, _, _, _)
dir_read_loop(d, ibuf, ioff, i, counter, ubuf) ==
  IF i >= MAX_SECTORS_PER_FILE THEN [ret |-> 0 - 1, errno |-> UNSET, buf |-> ubuf]
  ELSE LET sec == InodeDataAt(ibuf, ioff, i, 0)
       IN IF ~DiskOK(sec) THEN [ret |-> 0 - 1, errno |-> E_GENERAL, buf |-> ubuf]
          ELSE LET size == InodeSizeAt(ibuf, ioff)
                   r == dir_read_group(d[sec], ubuf, 0, counter, size)
               IN IF r.counter = size THEN [ret |-> size, errno |-> UNSET, buf |-> r.buf]
                  ELSE dir_read_loop(d, ibuf, ioff, i + 1, r.counter, r.buf)

\* Dir_Read after its loop returned r; ds is the result of Dir_Size
Dir_Read_end(r, ds) ==
  [ret |-> r.ret, errno |-> IF r.errno = UNSET THEN ds.errno ELSE r.errno, buf |-> r.buf]

\* Dir_Read after Dir_Size returned ds
Dir_Read_sized(d, child_inode, ubuf, size, ds) ==
  IF size < ds.ret THEN [ret |-> 0 - 1, errno |-> E_BUFFER_TOO_SMALL, buf |-> ubuf]
  ELSE IF ~DiskOK(InodeSector(child_inode))
    THEN [ret |-> 0 - 1, errno |-> E_GENERAL, buf |-> ubuf]
  ELSE Dir_Read_end(
         dir_read_loop(d, d[InodeSector(child_inode)],
                       InodeOffset(child_inode, InodeSector(child_inode)), 0, 0, ubuf),
         ds)

\* Dir_Read for the inode follow_path found: [ret, errno, buf]; size_inode is
\* the inode the nested call of Dir_Size reads after its own follow_path
Dir_Read_fn(d, child_inode, size_inode, ubuf, size) ==
  IF child_inode >= 0
    THEN Dir_Read_sized(d, child_inode, ubuf, size, Dir_Size_fn(d, size_inode))
    ELSE [ret |-> 0 - 1, errno |-> E_GENERAL, buf |-> ubuf]

-----------------------------------------------------------------------------
(* the public operations *)

\* what the memory read by an undefined access may hold
Garbage == {0, 1}

\* what an uninitialised `int child_inode` may hold
GarbageInode == {0 - 1, 1}

\* the paths the callers use
Root == <<47>>
PathA == <<47, 97>>
PathB == <<47, 98>>
PathC == <<47, 99>>
PathD == <<47, 100>>
PathE == <<47, 101>>
PathAB == <<47, 97, 47, 98>>
\* the bytes a caller writes, and the (zeroed) buffer a caller reads into
WriteData(n) == [k \in 1..n |-> 65 + (k % 26)]
ZeroBuffer(n) == [k \in 1..n |-> 0]

Errno(e) == IF e = UNSET THEN osErrno ELSE e

Call(op, path, fd, n, ret, buf) ==
  [op |-> op, path |-> path, fd |-> fd, n |-> n, ret |-> ret, buf |-> buf]

\* the backing files: two that FS_Boot may create, and one that holds an
\* image of the right size without the magic number
StoreA == <<97>>
StoreB == <<98>>
StoreJunk == <<106>>
Stores == {StoreA, StoreB, StoreJunk}

\* the FS_Boot(StoreA) that formatted the volume
NoOp == Call("FS_Boot", StoreA, 0 - 1, 1, 0, <<>>)

\* File_Create / Dir_Create with the result r of create_file_or_directory
Created(name, p, r) ==
  /\ disk' = r.disk
  /\ osErrno' = Errno(r.errno)
  /\ last' = Call(name, p, 0 - 1, 0, r.ret, <<>>)
  /\ live' = IF r.ret = 0 THEN live \cup {p} ELSE live
  /\ UNCHANGED <<open_files, wrote>>

Create(name, type, p) == Created(name, p, create_file_or_directory(disk, type, p))

File_Create(P) == \E p \in P : Create("File_Create", 0, p)

Dir_Create(P) == \E p \in P : Create("Dir_Create", 1, p)

\* the end of File_Unlink and Dir_Unlink: the switch on the result r of
\* remove_inode
Removed(name, p, r) ==
  /\ disk' = r.disk
  /\ osErrno' = Errno(RemoveErrno(r.ret))
  /\ last' = Call(name, p, 0 - 1, 0, IF r.ret = 0 THEN 0 ELSE 0 - 1, <<>>)
  /\ live' = IF r.ret = 0 THEN live \ {p} ELSE live
  /\ UNCHANGED <<open_files, wrote>>

\* a public operation that fails with osErrno e before changing anything
Fail(name, p, fd, n, e) ==
  /\ osErrno' = e
  /\ last' = Call(name, p, fd, n, 0 - 1, <<>>)
  /\ UNCHANGED <<disk, open_files, live, wrote>>

\* File_Unlink after follow_path returned f
File_Unlink_followed(p, f, g) ==
  IF f.ret >= 0
    THEN IF f.last_inode >= 0
           THEN IF is_file_open(open_files, f.last_inode)
                  THEN Fail("File_Unlink", p, 0 - 1, 0, E_FILE_IN_USE)
                  ELSE Removed("File_Unlink", p,
                               remove_inode(disk, 0, f.ret, f.last_inode, g))
           ELSE Fail("File_Unlink", p, 0 - 1, 0, E_NO_SUCH_FILE)
    ELSE Fail("File_Unlink", p, 0 - 1, 0, E_NO_SUCH_FILE)

File_Unlink(P) ==
  \E p \in P, g \in Garbage : File_Unlink_followed(p, follow_path(disk, p), g)

\* Dir_Unlink after follow_path returned f
Dir_Unlink_followed(p, f, g) ==
  IF f.ret >= 0 /\ f.last_inode >= 0
    THEN Removed("Dir_Unlink", p, remove_inode(disk, 1, f.ret, f.last_inode, g))
    ELSE Fail("Dir_Unlink", p, 0 - 1, 0, E_NO_SUCH_DIR)

Dir_Unlink(P) ==
  \E p \in P, g \in Garbage : Dir_Unlink_followed(p, follow_path(disk, p), g)

\* the value a caller reads from child_inode after follow_path: what
\* follow_path stored, or gi when it returned without storing
ChildInode(f, gi) == IF f.set THEN f.last_inode ELSE gi

\* the values gi that matter for the result f of follow_path
Uninit(f) == IF f.set THEN {0} ELSE GarbageInode

\* a variant of File_Open_inode that does not test the type of the inode
File_Open_inode_any(p, child_inode) ==
  LET fd == new_file_fd(open_files)
      isec == InodeSector(child_inode)
      ioff == InodeOffset(child_inode, isec)
  IN IF fd < 0 THEN Fail("File_Open", p, 0 - 1, 0, E_TOO_MANY_OPEN_FILES)
     ELSE IF child_inode < 0 THEN Fail("File_Open", p, 0 - 1, 0, E_NO_SUCH_FILE)
     ELSE IF ~DiskOK(isec) THEN Fail("File_Open", p, 0 - 1, 0, E_GENERAL)
     ELSE /\ open_files' = [open_files EXCEPT ![fd] =
                              [inode |-> child_inode,
                               size |-> InodeSizeAt(disk[isec], ioff), pos |-> 0]]
          /\ last' = Call("File_Open", p, fd, 0, fd, <<>>)
          /\ UNCHANGED <<disk, osErrno, live, wrote>>

\* File_Open for the inode follow_path found
File_Open_inode(p, child_inode) ==
  LET fd == new_file_fd(open_files)
      isec == InodeSector(child_inode)
      ioff == InodeOffset(child_inode, isec)
  IN IF fd < 0 THEN Fail("File_Open", p, 0 - 1, 0, E_TOO_MANY_OPEN_FILES)
     ELSE IF child_inode < 0 THEN Fail("File_Open", p, 0 - 1, 0, E_NO_SUCH_FILE)
     ELSE IF ~DiskOK(isec) THEN Fail("File_Open", p, 0 - 1, 0, E_GENERAL)
     ELSE IF InodeTypeAt(disk[isec], ioff) # 0 THEN Fail("File_Open", p, 0 - 1, 0, E_GENERAL)
     ELSE /\ open_files' = [open_files EXCEPT ![fd] =
                              [inode |-> child_inode,
                               size |-> InodeSizeAt(disk[isec], ioff), pos |-> 0]]
          /\ last' = Call("File_Open", p, fd, 0, fd, <<>>)
          /\ UNCHANGED <<disk, osErrno, live, wrote>>

\* File_Open after follow_path returned f
File_Open_followed(p, f) == \E gi \in Uninit(f) : File_Open_inode(p, ChildInode(f, gi))

File_Open(P) == \E p \in P : File_Open_followed(p, follow_path(disk, p))

\* File_Read with the result r of its body
File_Read_done(fd, n, r) ==
  /\ open_files' = [open_files EXCEPT ![fd].pos = r.pos]
  /\ osErrno' = Errno(r.errno)
  /\ last' = Call("File_Read", <<>>, fd, n, r.ret, r.buf)
  /\ UNCHANGED <<disk, live, wrote>>

File_Read(F, S) ==
  \E fd \in F, n \in S, g \in Garbage :
    File_Read_done(fd, n, File_Read_fn(disk, open_files, fd, ZeroBuffer(n), n, g))

\* File_Write with the result r of its body
File_Write_done(fd, n, r) ==
  /\ disk' = r.disk
  /\ open_files' = [open_files EXCEPT ![fd].pos = r.pos, ![fd].size = r.size]
  /\ osErrno' = Errno(r.errno)
  /\ last' = Call("File_Write", <<>>, fd, n, r.ret, WriteData(n))
  /\ wrote' = IF r.ret >= 0 THEN WriteData(n) ELSE wrote
  /\ UNCHANGED live

File_Write(F, S) ==
  \E fd \in F, n \in S, g \in Garbage :
    File_Write_done(fd, n, File_Write_fn(disk, open_files, fd, n, g))

\* a variant of File_Seek that moves the cursor of every descriptor of the
\* file
File_Seek_shared(F, O) ==
  \E fd \in F, offset \in O :
    IF ~is_file_open(open_files, open_files[fd].inode)
      THEN Fail("File_Seek", <<>>, fd, offset, E_BAD_FD)
    ELSE IF open_files[fd].size < offset \/ open_files[fd].size < 0
      THEN Fail("File_Seek", <<>>, fd, offset, E_SEEK_OUT_OF_BOUNDS)
    ELSE /\ open_files' = [i \in FDs |-> IF open_files[i].inode = open_files[fd].inode
                                          THEN [open_files[i] EXCEPT !.pos = offset]
                                          ELSE open_files[i]]
         /\ last' = Call("File_Seek", <<>>, fd, offset, offset, <<>>)
         /\ UNCHANGED <<disk, osErrno, live, wrote>>

File_Seek(F, O) ==
  \E fd \in F, offset \in O :
    IF ~is_file_open(open_files, open_files[fd].inode)
      THEN Fail("File_Seek", <<>>, fd, offset, E_BAD_FD)
    ELSE IF open_files[fd].size < offset \/ open_files[fd].size < 0
      THEN Fail("File_Seek", <<>>, fd, offset, E_SEEK_OUT_OF_BOUNDS)
    ELSE /\ open_files' = [open_files EXCEPT ![fd].pos = offset]
         /\ last' = Call("File_Seek", <<>>, fd, offset, offset, <<>>)
         /\ UNCHANGED <<disk, osErrno, live, wrote>>

\* the inode field File_Close reads for fd: that of the slot, or, for an fd
\* past the end of open_files, whatever the memory behind the table holds
SlotInode(fd, g) == IF fd \in FDs THEN open_files[fd].inode ELSE g

\* the values g that matter for fd
BehindTable(fd) == IF fd \in FDs THEN {0} ELSE Garbage

\* File_Close; the store through an fd past the end of the table misses it
File_Close(F) ==
  \E fd \in F :
    \E g \in BehindTable(fd) :
      IF 0 > fd \/ fd > MAX_OPEN_FILES \/ SlotInode(fd, g) <= 0
        THEN Fail("File_Close", <<>>, fd, 0, E_BAD_FD)
        ELSE /\ open_files' = [i \in FDs |->
                                 IF i = fd THEN [open_files[i] EXCEPT !.inode = 0]
                                 ELSE open_files[i]]
             /\ last' = Call("File_Close", <<>>, fd, 0, 0, <<>>)
             /\ UNCHANGED <<disk, osErrno, live, wrote>>

\* Dir_Size with the result r of its body
Dir_Size_done(p, r) ==
  /\ osErrno' = Errno(r.errno)
  /\ last' = Call("Dir_Size", p, 0 - 1, 0, r.ret, <<>>)
  /\ UNCHANGED <<disk, open_files, live, wrote>>

\* Dir_Size after follow_path returned f
Dir_Size_followed(p, f) ==
  \E gi \in Uninit(f) : Dir_Size_done(p, Dir_Size_fn(disk, ChildInode(f, gi)))

Dir_Size(P) == \E p \in P : Dir_Size_followed(p, follow_path(disk, p))

\* Dir_Read with the result r of its body
Dir_Read_done(p, n, r) ==
  /\ osErrno' = Errno(r.errno)
  /\ last' = Call("Dir_Read", p, 0 - 1, n, r.ret, r.buf)
  /\ UNCHANGED <<disk, open_files, live, wrote>>

\* Dir_Read after follow_path returned f
Dir_Read_followed(p, n, f) ==
  \E gi \in Uninit(f), gs \in Uninit(f) :
    Dir_Read_done(p, n, Dir_Read_fn(disk, ChildInode(f, gi), ChildInode(f, gs),
                                    ZeroBuffer(n), n))

Dir_Read(P, B) == \E p \in P, n \in B : Dir_Read_followed(p, n, follow_path(disk, p))

-----------------------------------------------------------------------------
(* FS_Boot and FS_Sync over the backing files *)

\* what backstore holds for a file that does not exist: an image of no
\* sector
Missing == <<>>

\* Disk_Init: a fresh device, every sector zero
Disk_Init == [s \in 0..(TOTAL_SECTORS - 1) |-> ZeroSector]

\* Disk_Load(name) fails with E_OPENING_FILE exactly when the file is missing
Disk_Load_fails(bs, name) == DOMAIN bs[name] = {}

check_magic(d) == At(d[SUPERBLOCK_START_SECTOR], 0, 0) = OS_MAGIC

\* FS_Boot found no backing file: format, save, clear the open-file table
FS_Boot_format(name, d) ==
  /\ disk' = d
  /\ backstore' = [backstore EXCEPT ![name] = d]
  /\ open_files' = [fd \in FDs |-> ClosedFile]
  /\ last' = Call("FS_Boot", name, 0 - 1, 1, 0, <<>>)
  /\ UNCHANGED osErrno

\* a variant of FS_Boot_loaded that keeps the open files
FS_Boot_loaded_keep(name, d) ==
  /\ disk' = d
  /\ osErrno' = IF check_magic(d) THEN osErrno ELSE E_GENERAL
  /\ last' = Call("FS_Boot", name, 0 - 1, 0, IF check_magic(d) THEN 0 ELSE 0 - 1, <<>>)
  /\ UNCHANGED <<backstore, open_files>>

\* FS_Boot loaded the image d of an existing backing file
FS_Boot_loaded(name, d) ==
  /\ disk' = d
  /\ open_files' = IF check_magic(d) THEN [fd \in FDs |-> ClosedFile] ELSE open_files
  /\ osErrno' = IF check_magic(d) THEN osErrno ELSE E_GENERAL
  /\ last' = Call("FS_Boot", name, 0 - 1, 0, IF check_magic(d) THEN 0 ELSE 0 - 1, <<>>)
  /\ UNCHANGED backstore

\* FS_Boot(name); last.n tells whether the volume was formatted
FS_Boot(N) ==
  \E name \in N :
    /\ bs_filename' = name
    /\ live' = {}
    /\ wrote' = <<>>
    /\ IF Disk_Load_fails(backstore, name)
         THEN FS_Boot_format(name, Format(Disk_Init))
         ELSE FS_Boot_loaded(name, backstore[name])

\* FS_Sync: Disk_Save(bs_filename)
FS_Sync ==
  /\ backstore' = [backstore EXCEPT ![bs_filename] = disk]
  /\ last' = Call("FS_Sync", bs_filename, 0 - 1, 0, 0, <<>>)
  /\ UNCHANGED <<disk, open_files, osErrno, live, wrote, bs_filename>>

-----------------------------------------------------------------------------
(* bitmap_first_unused step by step, for callers that take no lock *)

Callers == {1, 2}

\* a caller outside bitmap_first_unused
Idle == [pc |-> "idle", start |-> 0, num |-> 0, nbits |-> 0, j |-> 0, scanned |-> 0, found |-> 0, buf |-> ZeroSector]

\* a variant of first_unused_set that leaves the bit as it was
first_unused_set_none(buf, p) == buf

\* buffer[x] = set_NthBit(buffer[x], bitInByte) for the bit at position p
first_unused_set(buf, p) == [buf EXCEPT ![p \div 8 + 1] = set_NthBit(buf[p \div 8 + 1], p % 8)]

\* caller c enters bitmap_first_unused(start, num, nbits)
Alloc_Call(c, b) ==
  /\ callers[c].pc = "idle"
  /\ callers' = [callers EXCEPT ![c] = [Idle EXCEPT !.pc = "read", !.start = b[1], !.num = b[2], !.nbits = b[3]]]
  /\ serial' = (serial /\ \A o \in Callers : callers[o].pc = "idle")
  /\ UNCHANGED <<disk, got>>

\* caller c returns ret from the call it made
Alloc_Return(c, ret) ==
  /\ callers' = [callers EXCEPT ![c] = Idle]
  /\ got' = Append(got, <<callers[c].start, ret>>)

\* caller c has read sector start + j into its buffer and scans it: it
\* finds a clear bit to set, or goes on to the next sector, or returns -1
Alloc_Scanned(c, p) ==
  IF p >= 0
    THEN /\ callers' = [callers EXCEPT ![c].pc = "write", ![c].found = p, ![c].buf = disk[callers[c].start + callers[c].j]]
         /\ UNCHANGED got
  ELSE IF callers[c].j + 1 >= callers[c].num
    THEN Alloc_Return(c, 0 - 1)
    ELSE /\ callers' = [callers EXCEPT ![c].j = callers[c].j + 1, ![c].scanned = callers[c].scanned + ScanBits(callers[c].nbits)]
         /\ UNCHANGED got

\* Disk_Read(i, buffer) of caller c and the scan of the buffer
Alloc_Read(c) ==
  /\ callers[c].pc = "read"
  /\ Alloc_Scanned(c, FirstClear(disk[callers[c].start + callers[c].j], ScanBits(callers[c].nbits)))
  /\ UNCHANGED <<disk, serial>>

\* caller c sets the bit it found in its buffer, writes the buffer back with
\* Disk_Write(i, buffer) and returns the location
Alloc_Write(c) ==
  /\ callers[c].pc = "write"
  /\ disk' = Disk_Write(disk, callers[c].start + callers[c].j, first_unused_set(callers[c].buf, callers[c].found))
  /\ Alloc_Return(c, callers[c].scanned + callers[c].found)
  /\ UNCHANGED serial

-----------------------------------------------------------------------------
(* specifications *)

\* the state FS_Boot(StoreA) returns in when no backing file exists yet,
\* except the foreign file StoreJunk
Init ==
  /\ disk = Format(Disk_Init)
  /\ open_files = [fd \in FDs |-> ClosedFile]
  /\ osErrno = E_NONE
  /\ last = NoOp
  /\ live = {}
  /\ wrote = <<>>
  /\ nops = 0
  /\ backstore = [n \in Stores |-> IF n = StoreA THEN Format(Disk_Init)
                                   ELSE IF n = StoreJunk THEN Disk_Init ELSE Missing]
  /\ bs_filename = StoreA
  /\ callers = [c \in Callers |-> Idle]
  /\ got = <<>>
  /\ serial = TRUE

\* one more call of an operation other than FS_Boot and FS_Sync, while fewer
\* than max calls were made: the backing files are left alone
Tick(max) == nops < max /\ nops' = nops + 1 /\ UNCHANGED <<backstore, bs_filename, callers, got, serial>>

\* one more call of FS_Boot or FS_Sync
TickStore(max) == nops < max /\ nops' = nops + 1 /\ UNCHANGED <<callers, got, serial>>

\* every public operation, on a two-level tree
Paths == {Root, PathA, PathAB}
Sizes == {1, SECTOR_SIZE + 1, MAX_FILE_SIZE}
Offsets == {0, 1}
MaxEntries == 4
BufferSizes == {DIRENT_SIZE, MaxEntries * DIRENT_SIZE}

MaxOps == 4

Next ==
  \/ Tick(MaxOps) /\ File_Create(Paths)
  \/ Tick(MaxOps) /\ Dir_Create(Paths)
  \/ Tick(MaxOps) /\ File_Unlink(Paths)
  \/ Tick(MaxOps) /\ Dir_Unlink(Paths)
  \/ Tick(MaxOps) /\ File_Open(Paths)
  \/ Tick(MaxOps) /\ File_Read(FDs, Sizes)
  \/ Tick(MaxOps) /\ File_Write(FDs, Sizes)
  \/ Tick(MaxOps) /\ File_Seek(FDs, Offsets)
  \/ Tick(MaxOps) /\ File_Close(FDs)
  \/ Tick(MaxOps) /\ Dir_Size(Paths)
  \/ Tick(MaxOps) /\ Dir_Read(Paths, BufferSizes)

Spec == Init /\ [][Next]_vars

\* creates, unlinks and sizes of the entries of the root directory
DirPaths == {PathA, PathB, PathC}

MaxOpsDir == 5

NextDir ==
  \/ Tick(MaxOpsDir) /\ File_Create(DirPaths)
  \/ Tick(MaxOpsDir) /\ Dir_Create(DirPaths)
  \/ Tick(MaxOpsDir) /\ File_Unlink(DirPaths)
  \/ Tick(MaxOpsDir) /\ Dir_Unlink(DirPaths)
  \/ Tick(MaxOpsDir) /\ Dir_Size({Root})

SpecDir == Init /\ [][NextDir]_vars

\* creates until the allocator gives up, and listings of the root directory
FillPaths == {PathA, PathB, PathC, PathD, PathE}

MaxOpsFill == 6

NextFill ==
  \/ Tick(MaxOpsFill) /\ File_Create(FillPaths)
  \/ Tick(MaxOpsFill) /\ Dir_Read({Root}, BufferSizes)

SpecFill == Init /\ [][NextFill]_vars

\* one file written to its maximum size, and creates in the root directory
ExhaustPaths == {PathA, PathB, PathC, PathD}

MaxOpsExhaust == 6

NextExhaust ==
  \/ Tick(MaxOpsExhaust) /\ File_Create(ExhaustPaths)
  \/ Tick(MaxOpsExhaust) /\ File_Open({PathA})
  \/ Tick(MaxOpsExhaust) /\ File_Write({0}, {MAX_FILE_SIZE})

SpecExhaust == Init /\ [][NextExhaust]_vars

\* one caller: create, open, write, close, open again, read
AllSizes == 1..MAX_FILE_SIZE

NextRoundTrip ==
  \/ nops = 0 /\ Tick(6) /\ File_Create({PathA})
  \/ nops \in {1, 4} /\ Tick(6) /\ File_Open({PathA})
  \/ nops = 2 /\ Tick(6) /\ File_Write({0}, AllSizes)
  \/ nops = 3 /\ Tick(6) /\ File_Close(FDs)
  \/ nops = 5 /\ Tick(6) /\ File_Read({0}, {Len(wrote)})

SpecRoundTrip == Init /\ [][NextRoundTrip]_vars

\* one file, opened up to twice, written one or two sectors at a time, with
\* seeks to positions below, inside, at and above its size and reads of a
\* byte, a sector and the whole file
SeekOffsets == {0 - 1, 0, 1, SECTOR_SIZE, SECTOR_SIZE + 1}

ReadSizes == {1, SECTOR_SIZE, MAX_FILE_SIZE}

MaxOpsSeek == 6

NextSeek ==
  \/ Tick(MaxOpsSeek) /\ File_Create({PathA})
  \/ Tick(MaxOpsSeek) /\ File_Open({PathA})
  \/ Tick(MaxOpsSeek) /\ File_Write(FDs, {SECTOR_SIZE, MAX_FILE_SIZE})
  \/ Tick(MaxOpsSeek) /\ File_Seek(FDs, SeekOffsets)
  \/ Tick(MaxOpsSeek) /\ File_Read(FDs, ReadSizes)

SpecSeek == Init /\ [][NextSeek]_vars


\* two files on a volume whose data sectors run out: writes of one sector,
\* of a sector and a byte, of the maximum file size and of one byte more
WriteSizes == {SECTOR_SIZE, SECTOR_SIZE + 1, MAX_FILE_SIZE, MAX_FILE_SIZE + 1}

MaxOpsNoSpace == 7

NextNoSpace ==
  \/ Tick(MaxOpsNoSpace) /\ File_Create({PathA, PathB})
  \/ Tick(MaxOpsNoSpace) /\ File_Open({PathA, PathB})
  \/ Tick(MaxOpsNoSpace) /\ File_Write(FDs, WriteSizes)

SpecNoSpace == Init /\ [][NextNoSpace]_vars

\* two files and the open file table: descriptors are opened, written
\* through and closed, also with an fd below and one just past the table,
\* while the files are unlinked
CloseFDs == (0 - 1)..MAX_OPEN_FILES

MaxOpsTable == 5

NextTable ==
  \/ Tick(MaxOpsTable) /\ File_Create({PathA, PathB})
  \/ Tick(MaxOpsTable) /\ File_Open({PathA, PathB})
  \/ Tick(MaxOpsTable) /\ File_Write(FDs, {SECTOR_SIZE})
  \/ Tick(MaxOpsTable) /\ File_Close(CloseFDs)
  \/ Tick(MaxOpsTable) /\ File_Unlink({PathA, PathB})

SpecTable == Init /\ [][NextTable]_vars

\* a directory /a beside the root, with files and directories created and
\* removed in both
TreePaths == {Root, PathA, PathB, PathAB}

MaxOpsTree == 6

NextTree ==
  \/ Tick(MaxOpsTree) /\ File_Create(TreePaths)
  \/ Tick(MaxOpsTree) /\ Dir_Create(TreePaths)
  \/ Tick(MaxOpsTree) /\ File_Unlink(TreePaths)
  \/ Tick(MaxOpsTree) /\ Dir_Unlink(TreePaths)

SpecTree == Init /\ [][NextTree]_vars

\* a file /a and a directory /b: opens of the file, of the directory and of
\* the root, with the table filling up
OpenPaths == {Root, PathA, PathB}

MaxOpsOpenDir == 7

NextOpenDir ==
  \/ Tick(MaxOpsOpenDir) /\ File_Create({PathA})
  \/ Tick(MaxOpsOpenDir) /\ Dir_Create({PathB})
  \/ Tick(MaxOpsOpenDir) /\ File_Open(OpenPaths)
  \/ Tick(MaxOpsOpenDir) /\ File_Close(FDs)

SpecOpenDir == Init /\ [][NextOpenDir]_vars

-----------------------------------------------------------------------------
(* observations of the volume *)

\* the fields of inode k as the inode table of d holds them
TypeOf(d, k) == InodeTypeAt(d[InodeSector(k)], InodeOffset(k, InodeSector(k)))
SizeOf(d, k) == InodeSizeAt(d[InodeSector(k)], InodeOffset(k, InodeSector(k)))
DataOf(d, k, j) == InodeDataAt(d[InodeSector(k)], InodeOffset(k, InodeSector(k)), j, 0)

\* the <<name, inode>> pair held by dirent cells
Pair(cells) == <<CString(SubSeq(cells, 1, MAX_NAME)), cells[DIRENT_SIZE]>>

\* the pairs at the indices [0, size) of the directory with inode k
Entries(d, k) ==
  {Pair(DirentCellsAt(d[DataOf(d, k, e \div DIRENTS_PER_SECTOR)], e % DIRENTS_PER_SECTOR)) :
     e \in 0..(SizeOf(d, k) - 1)}

\* the pairs in the first n dirent slots of a caller's buffer
BufferPairs(buf, n) ==
  {Pair(SubSeq(buf, e * DIRENT_SIZE + 1, (e + 1) * DIRENT_SIZE)) : e \in 0..(n - 1)}

\* the name of an entry of the root directory, from its path
NameOf(p) == Tail(p)

\* the pairs of the live entries of the root directory, by path resolution
LivePairs == {<<NameOf(p), follow_path(disk, p).last_inode>> : p \in live}

InodeBit(d, i) == isNthSet(d[INODE_BITMAP_START_SECTOR][i \div 8 + 1], i % 8)
SectorBit(d, s) == isNthSet(d[SECTOR_BITMAP_START_SECTOR][s \div 8 + 1], s % 8)

\* the sectors named by the data array of the root or of an inode that an
\* entry of the root names
Referenced(d) ==
  {DataOf(d, k, j) : k \in {0} \cup {e[2] : e \in Entries(d, 0)},
                     j \in 0..(MAX_SECTORS_PER_FILE - 1)} \ {0}

Unlinks == {"File_Unlink", "Dir_Unlink"}
Creates == {"File_Create", "Dir_Create"}

-----------------------------------------------------------------------------
(* properties *)

\* C1: after File_Create, File_Open, File_Write of N bytes, File_Close,
\* File_Open and File_Read of N bytes, the read returns N and the caller's
\* buffer holds the N bytes that were written
C1_RoundTrip ==
  (nops = 6 /\ last.op = "File_Read") => (last.ret = Len(wrote) /\ last.buf = wrote)

\* C2: right after a successful File_Unlink or Dir_Unlink of p, resolving p
\* finds no entry
C2_UnlinkedNotFound ==
  (last.op \in Unlinks /\ last.ret = 0) => follow_path(disk, last.path).last_inode = 0 - 1

\* C3: Dir_Size of the root returns the number of entries created in it and
\* not since removed (as a count or, the way Dir_Size reports it, in bytes)
C3_DirSize ==
  last.op = "Dir_Size" =>
    last.ret \in {Cardinality(live), Cardinality(live) * DIRENT_SIZE}

\* C4: Dir_Read of the root with a buffer large enough for the live entries
\* returns their number and fills the buffer with exactly their pairs
C4_DirRead ==
  (last.op = "Dir_Read" /\ last.n >= Cardinality(live) * DIRENT_SIZE) =>
    /\ last.ret = Cardinality(live)
    /\ BufferPairs(last.buf, Cardinality(live)) = LivePairs

\* C5: a successful unlink in a root directory of n >= 2 entries leaves
\* exactly the other n - 1 pairs, at the indices [0, n - 1)
C5_Compaction ==
  [][(last'.op \in Unlinks /\ last'.ret = 0 /\ SizeOf(disk, 0) >= 2) =>
       /\ SizeOf(disk', 0) = SizeOf(disk, 0) - 1
       /\ Entries(disk', 0) = {e \in Entries(disk, 0) : e[1] # NameOf(last'.path)}]_vars

\* C6: a sector's bit is set exactly when the sector is a metadata sector or
\* the data array of the root or of an entry of the root names it
C6_SectorBitmap ==
  \A s \in 0..(TOTAL_SECTORS - 1) :
    SectorBit(disk, s) <=> (s < DATABLOCK_START_SECTOR \/ s \in Referenced(disk))

\* C7: an inode's bit is set exactly when the inode is the root or an entry
\* of the root names it; so a create that fails leaves no new bit set
C7_InodeBitmap ==
  \A i \in 0..(MAX_FILES - 1) :
    InodeBit(disk, i) <=> (i = 0 \/ i \in {e[2] : e \in Entries(disk, 0)})

\* C8: inode 0 stays a directory whose inode bit is set, and no created path
\* resolves to inode 0
C8_RootPermanent ==
  /\ TypeOf(disk, 0) = 1
  /\ InodeBit(disk, 0)
  /\ \A p \in live : follow_path(disk, p).last_inode # 0

\* C9: a create of a name that does not exist fails only once MAX_FILES - 1
\* creates have succeeded
C9_Exhaustion ==
  (last.op \in Creates /\ last.ret # 0 /\ last.path \notin live) =>
    Cardinality(live) >= MAX_FILES - 1

\* C10: File_Read, File_Write and File_Seek on a descriptor whose slot is not
\* open fail with E_BAD_FD and change neither the open file table nor the disk
C10_BadDescriptor ==
  [][\A fd \in FDs :
       (last'.op \in {"File_Read", "File_Write", "File_Seek"} /\ last'.fd = fd
          /\ nops' = nops + 1 /\ open_files[fd].inode <= 0) =>
         (last'.ret = 0 - 1 /\ osErrno' = E_BAD_FD /\ UNCHANGED <<disk, open_files>>)]_vars

\* the step is a call op(fd, n) by a caller whose descriptor fd is open
OpenCall(op, fd, n) ==
  /\ nops' = nops + 1
  /\ last'.op = op /\ last'.fd = fd /\ last'.n = n
  /\ open_files[fd].inode > 0

\* C11: File_Seek(fd, p) with p the file's current size succeeds and sets the
\* cursor to p, and a File_Read of any positive length then returns 0;
\* File_Seek(fd, size + 1) fails with E_SEEK_OUT_OF_BOUNDS and leaves the
\* cursor where it was
C11_SeekAtSize ==
  [][\A fd \in FDs :
       /\ OpenCall("File_Seek", fd, SizeOf(disk, open_files[fd].inode)) =>
            /\ last'.ret = SizeOf(disk, open_files[fd].inode)
            /\ open_files'[fd].pos = SizeOf(disk, open_files[fd].inode)
            /\ \A n \in AllSizes, g \in Garbage :
                 File_Read_fn(disk', open_files', fd, ZeroBuffer(n), n, g).ret = 0
       /\ OpenCall("File_Seek", fd, SizeOf(disk, open_files[fd].inode) + 1) =>
            /\ last'.ret = 0 - 1
            /\ osErrno' = E_SEEK_OUT_OF_BOUNDS
            /\ open_files'[fd].pos = open_files[fd].pos]_vars

\* C12: File_Seek(fd, p) on an open descriptor with p negative fails with
\* E_SEEK_OUT_OF_BOUNDS and leaves the cursor where it was
C12_SeekNegative ==
  [][\A fd \in FDs, p \in SeekOffsets :
       (p < 0 /\ OpenCall("File_Seek", fd, p)) =>
         /\ last'.ret = 0 - 1
         /\ osErrno' = E_SEEK_OUT_OF_BOUNDS
         /\ open_files'[fd].pos = open_files[fd].pos]_vars

\* the sectors of the inode bitmap and of the sector bitmap
BitmapSectors == INODE_BITMAP_START_SECTOR..(INODE_TABLE_START_SECTOR - 1)

\* C13: a File_Write of n bytes with cursor + n above MAX_FILE_SIZE fails with
\* E_FILE_TOO_BIG and leaves the inode's size, the cached size, the cursor and
\* both bitmaps as they were
C13_WriteTooBig ==
  [][\A fd \in FDs, n \in WriteSizes :
       (OpenCall("File_Write", fd, n) /\ open_files[fd].pos + n > MAX_FILE_SIZE) =>
         /\ last'.ret = 0 - 1
         /\ osErrno' = E_FILE_TOO_BIG
         /\ SizeOf(disk', open_files[fd].inode) = SizeOf(disk, open_files[fd].inode)
         /\ open_files'[fd] = open_files[fd]
         /\ \A s \in BitmapSectors : disk'[s] = disk[s]]_vars

\* C14: a File_Write(fd, n) that succeeds from cursor c returns n, moves the
\* cursor to c + n and sets the cached size and the inode's size to c + n
C14_WriteAdvances ==
  [][\A fd \in FDs, n \in AllSizes :
       (OpenCall("File_Write", fd, n) /\ last'.ret >= 0) =>
         /\ last'.ret = n
         /\ open_files'[fd].pos = open_files[fd].pos + n
         /\ open_files'[fd].size = open_files[fd].pos + n
         /\ SizeOf(disk', open_files[fd].inode) = open_files[fd].pos + n]_vars

\* what is left of the file between the cursor and the cached size of slot f
Remaining(f) == IF f.size > f.pos THEN f.size - f.pos ELSE 0

\* C15: File_Read(fd, n) with the cursor c inside the file of size s returns
\* min(n, s - c), never an error, and advances the cursor by what it returns
C15_ReadCount ==
  [][\A fd \in FDs, n \in ReadSizes :
       (OpenCall("File_Read", fd, n) /\ open_files[fd].pos >= 0) =>
         /\ last'.ret = (IF n < Remaining(open_files[fd]) THEN n
                         ELSE Remaining(open_files[fd]))
         /\ open_files'[fd].pos = open_files[fd].pos + last'.ret]_vars

\* the step is a call op(p) on the path p
PathCall(op, p) == nops' = nops + 1 /\ last'.op = op /\ last'.path = p

\* the inode the volume d holds under the path p, or -1
Resolves(d, p) ==
  IF follow_path(d, p).ret >= 0 THEN follow_path(d, p).last_inode ELSE 0 - 1

\* p names a regular file of the volume d
RegularFile(d, p) == Resolves(d, p) > 0 /\ TypeOf(d, Resolves(d, p)) = 0

\* the slots of the table of that are in use
InUse(of) == {fd \in FDs : of[fd].inode > 0}

\* C16: File_Open of an existing regular file fails with
\* E_TOO_MANY_OPEN_FILES exactly when every slot is in use; otherwise it
\* returns the lowest free slot and sets it to (the file's inode, the inode's
\* size, cursor 0), leaving the other slots as they were
C16_OpenSlot ==
  [][\A p \in {PathA, PathB} :
       (PathCall("File_Open", p) /\ RegularFile(disk, p)) =>
         IF InUse(open_files) = FDs
           THEN /\ last'.ret = 0 - 1
                /\ osErrno' = E_TOO_MANY_OPEN_FILES
                /\ open_files' = open_files
           ELSE /\ last'.ret \in FDs \ InUse(open_files)
                /\ \A fd \in FDs \ InUse(open_files) : last'.ret <= fd
                /\ open_files' = [open_files EXCEPT ![last'.ret] =
                                    [inode |-> Resolves(disk, p),
                                     size |-> SizeOf(disk, Resolves(disk, p)),
                                     pos |-> 0]]]_vars

\* C16 witness: an open of a regular file was refused with the table full
C16_Witness ==
  /\ last.op = "File_Open" /\ last.ret = 0 - 1
  /\ osErrno = E_TOO_MANY_OPEN_FILES
  /\ RegularFile(disk, last.path)
  /\ InUse(open_files) = FDs
  /\ \E fd \in FDs : open_files[fd].size > 0

\* C17: File_Close(fd) fails with E_BAD_FD and changes nothing when fd is
\* outside [0, MAX_OPEN_FILES) or its slot is free; otherwise it frees that
\* slot and leaves the other slots as they were
C17_Close ==
  [][\A fd \in CloseFDs :
       (nops' = nops + 1 /\ last'.op = "File_Close" /\ last'.fd = fd) =>
         IF fd \notin InUse(open_files)
           THEN /\ last'.ret = 0 - 1
                /\ osErrno' = E_BAD_FD
                /\ UNCHANGED <<disk, open_files>>
           ELSE /\ last'.ret = 0
                /\ InUse(open_files') = InUse(open_files) \ {fd}
                /\ \A i \in FDs \ {fd} : open_files'[i] = open_files[i]
                /\ UNCHANGED disk]_vars

\* C18: File_Unlink(p) fails with E_FILE_IN_USE and leaves the disk as it was
\* whenever an open descriptor references p's inode; with no descriptor on
\* the inode of the regular file p, File_Unlink(p) succeeds
C18_UnlinkInUse ==
  [][\A p \in {PathA, PathB} :
       (PathCall("File_Unlink", p) /\ RegularFile(disk, p)) =>
         IF \E fd \in InUse(open_files) : open_files[fd].inode = Resolves(disk, p)
           THEN /\ last'.ret = 0 - 1
                /\ osErrno' = E_FILE_IN_USE
                /\ UNCHANGED <<disk, open_files>>
           ELSE last'.ret = 0]_vars

\* C18 witness: the unlink of a file with a descriptor on it was refused
C18_Witness ==
  /\ last.op = "File_Unlink" /\ last.ret = 0 - 1
  /\ osErrno = E_FILE_IN_USE
  /\ \E fd \in InUse(open_files) : open_files[fd].inode = Resolves(disk, last.path)

\* p names a directory of the volume d that holds at least one entry
FilledDir(d, p) ==
  Resolves(d, p) >= 0 /\ TypeOf(d, Resolves(d, p)) = 1 /\ SizeOf(d, Resolves(d, p)) >= 1

\* C19: Dir_Unlink(p) on a directory that holds at least one entry fails with
\* E_DIR_NOT_EMPTY and leaves the whole volume as it was
C19_DirNotEmpty ==
  [][\A p \in TreePaths :
       (PathCall("Dir_Unlink", p) /\ FilledDir(disk, p)) =>
         /\ last'.ret = 0 - 1
         /\ osErrno' = E_DIR_NOT_EMPTY
         /\ UNCHANGED disk]_vars

\* C19 witness: the removal of the directory /a, which holds /a/b, was refused
C19_Witness ==
  /\ last.op = "Dir_Unlink" /\ last.path = PathA /\ last.ret = 0 - 1
  /\ osErrno = E_DIR_NOT_EMPTY
  /\ PathAB \in live
  /\ FilledDir(disk, PathA)

\* C20: File_Create(p) or Dir_Create(p) on a path that already names a file
\* or a directory fails with E_CREATE and leaves the whole volume as it was
C20_CreateExisting ==
  [][\A p \in TreePaths :
       ((PathCall("File_Create", p) \/ PathCall("Dir_Create", p))
          /\ Resolves(disk, p) >= 0) =>
         /\ last'.ret = 0 - 1
         /\ osErrno' = E_CREATE
         /\ UNCHANGED disk]_vars

\* C20 witness: the second creation of /a/b, which exists, was refused
C20_Witness ==
  /\ last.op \in Creates /\ last.path = PathAB /\ last.ret = 0 - 1
  /\ osErrno = E_CREATE
  /\ PathAB \in live
  /\ Resolves(disk, PathAB) > 0

\* p names a directory of the volume d
Directory(d, p) == Resolves(d, p) >= 0 /\ TypeOf(d, Resolves(d, p)) = 1

\* C21: File_Open(p) where p names a directory, the root included, fails with
\* E_GENERAL and leaves the open file table as it was
C21_OpenDirectory ==
  [][\A p \in OpenPaths :
       (PathCall("File_Open", p) /\ Directory(disk, p)) =>
         /\ last'.ret = 0 - 1
         /\ osErrno' = E_GENERAL
         /\ UNCHANGED open_files]_vars

\* C21 as the code has it: File_Open(p) where p names a directory fails and
\* leaves the open file table as it was; the error is E_GENERAL when a slot
\* is free and E_TOO_MANY_OPEN_FILES when every slot is in use
C21_OpenDirectoryFree ==
  [][\A p \in OpenPaths :
       (PathCall("File_Open", p) /\ Directory(disk, p)) =>
         /\ last'.ret = 0 - 1
         /\ osErrno' = (IF InUse(open_files) = FDs THEN E_TOO_MANY_OPEN_FILES
                        ELSE E_GENERAL)
         /\ UNCHANGED open_files]_vars

\* C21 witness: the open of the directory /b was refused with E_GENERAL while
\* one slot was in use and another free
C21_Witness ==
  /\ last.op = "File_Open" /\ last.path = PathB /\ last.ret = 0 - 1
  /\ osErrno = E_GENERAL
  /\ Directory(disk, PathB)
  /\ InUse(open_files) # {} /\ InUse(open_files) # FDs
-----------------------------------------------------------------------------
(* boot and sync *)

\* create, open, write, sync and boot against the three backing files
MaxOpsBoot == 6

NextBoot ==
  \/ Tick(MaxOpsBoot) /\ File_Create({PathA})
  \/ Tick(MaxOpsBoot) /\ File_Open({PathA})
  \/ Tick(MaxOpsBoot) /\ File_Write(FDs, {SECTOR_SIZE})
  \/ TickStore(MaxOpsBoot) /\ FS_Sync
  \/ TickStore(MaxOpsBoot) /\ FS_Boot(Stores)

SpecBoot == Init /\ [][NextBoot]_vars

\* bit i of the bitmap that starts at sector start
BitOf(d, start, i) == isNthSet(d[start + i \div (SECTOR_SIZE * 8)][(i % (SECTOR_SIZE * 8)) \div 8 + 1], i % 8)

\* the number of bits a bitmap of num sectors holds
Capacity(num) == num * SECTOR_SIZE * 8

\* cell c of sector i of the inode table
TableCell(d, i, c) == At(d[INODE_TABLE_START_SECTOR + i], c, 0)

\* a freshly formatted volume
Fresh(d) ==
  /\ check_magic(d)
  /\ \A i \in 0..(Capacity(INODE_BITMAP_SECTORS) - 1) : BitOf(d, INODE_BITMAP_START_SECTOR, i) <=> i = 0
  /\ \A s \in 0..(Capacity(SECTOR_BITMAP_SECTORS) - 1) : BitOf(d, SECTOR_BITMAP_START_SECTOR, s) <=> s < DATABLOCK_START_SECTOR
  /\ \A i \in 0..(INODE_TABLE_SECTORS - 1) : \A c \in 0..(SECTOR_SIZE - 1) : TableCell(d, i, c) = (IF i = 0 /\ c = 1 THEN 1 ELSE 0)
  /\ TypeOf(d, 0) = 1 /\ SizeOf(d, 0) = 0

\* C22: after an FS_Boot that found no backing file, the volume holds the
\* magic number, an inode bitmap with exactly bit 0 set, a sector bitmap with
\* exactly the bits of the sectors before the first data sector set, an
\* inode table that is zero except for inode 0, a directory of size 0, and
\* an open-file table whose slots are all free
C22_FreshVolume ==
  (last.op = "FS_Boot" /\ last.n = 1) =>
     /\ last.ret = 0
     /\ Fresh(disk)
     /\ InUse(open_files) = {}
     /\ open_files = [fd \in FDs |-> ClosedFile]
     /\ backstore[last.path] = disk

\* a second backing file was formatted after files were created, written
\* and synced to the first
C22_Witness ==
  /\ last.op = "FS_Boot" /\ last.n = 1 /\ last.path = StoreB
  /\ backstore[StoreA] # disk
  /\ Fresh(disk)

-----------------------------------------------------------------------------
(* paths that cannot be followed *)

\* "a", "/!", "/aaaa": not absolute, an illegal character, a name of
\* MAX_NAME characters; "/a/b" cannot be followed while "/a" is missing or a
\* regular file
PathRel == <<97>>
PathBang == <<47, 33>>
PathLong == <<47>> \o [i \in 1..MAX_NAME |-> 97]
BadPaths == {PathRel, PathBang, PathLong, PathAB}

MaxOpsPath == 3

NextPath ==
  \/ Tick(MaxOpsPath) /\ File_Create({PathA} \cup BadPaths)
  \/ Tick(MaxOpsPath) /\ Dir_Create(BadPaths)
  \/ Tick(MaxOpsPath) /\ File_Open({PathA} \cup BadPaths)
  \/ Tick(MaxOpsPath) /\ File_Unlink(BadPaths)
  \/ Tick(MaxOpsPath) /\ Dir_Unlink(BadPaths)
  \/ Tick(MaxOpsPath) /\ Dir_Size(BadPaths)
  \/ Tick(MaxOpsPath) /\ Dir_Read(BadPaths, {DIRENT_SIZE})

SpecPath == Init /\ [][NextPath]_vars

\* the paths of BadPaths that cannot be followed on the volume d
Unfollowable(d) == {PathRel, PathBang, PathLong} \cup (IF Directory(d, PathA) THEN {} ELSE {PathAB})

\* a call of one of the operations of ops with the path p
PathCallOf(ops, p) == nops' = nops + 1 /\ last'.op \in ops /\ last'.path = p

PathOps == {"File_Create", "Dir_Create", "File_Open", "File_Unlink", "Dir_Unlink", "Dir_Size", "Dir_Read"}

\* C23: follow_path fails on a path that does not start with '/', that has a
\* component with an illegal character or of more than MAX_NAME-1 characters,
\* or that has a component after one that was not found or that names a
\* regular file; every public operation given such a path returns -1 and
\* leaves the disk and the open file table as they were
C23_BadPath ==
  [][\A p \in Unfollowable(disk) :
       PathCallOf(PathOps, p) =>
         /\ follow_path(disk, p).ret = 0 - 1
         /\ last'.ret = 0 - 1
         /\ UNCHANGED <<disk, open_files>>]_vars

\* the part of C23 that holds: follow_path fails on these paths, and the
\* operations that test its result fail and change nothing
C23_BadPathTested ==
  [][\A p \in Unfollowable(disk) :
       /\ follow_path(disk, p).ret = 0 - 1
       /\ PathCallOf({"File_Create", "Dir_Create", "File_Unlink", "Dir_Unlink"}, p) =>
            (last'.ret = 0 - 1 /\ UNCHANGED <<disk, open_files>>)]_vars

-----------------------------------------------------------------------------
(* boot after sync *)

\* a step that is a call of FS_Boot for the backing file FS_Sync saves to
Reboot == nops' = nops + 1 /\ last'.op = "FS_Boot" /\ last'.path = bs_filename

\* C24: FS_Boot right after FS_Sync of a volume, against the backing file
\* that was synced, succeeds with the image that was synced and an empty
\* open file table; an FS_Boot right after that, against the same backing
\* file, yields the same image and the same empty table again
C24_BootIdempotent ==
  [][/\ (Reboot /\ last.op = "FS_Sync" /\ check_magic(disk)) =>
          /\ last'.ret = 0
          /\ disk' = disk
          /\ disk' = backstore[bs_filename]
          /\ InUse(open_files') = {}
     /\ (Reboot /\ last.op = "FS_Boot" /\ last.ret = 0 /\ last.path = bs_filename) =>
          /\ last'.ret = 0
          /\ disk' = disk
          /\ open_files' = open_files
          /\ InUse(open_files') = {}
          /\ UNCHANGED backstore]_vars

\* a file was created, opened and written, the volume synced and then
\* booted from its backing file: the image still holds the file with what
\* was written and no descriptor is open
C24_Witness ==
  /\ last.op = "FS_Boot" /\ last.n = 0 /\ last.ret = 0
  /\ nops = 6
  /\ RegularFile(disk, PathA)
  /\ SizeOf(disk, Resolves(disk, PathA)) = SECTOR_SIZE
  /\ disk = backstore[bs_filename]
  /\ InUse(open_files) = {}

-----------------------------------------------------------------------------
(* the bitmap functions on a region of one or two sectors *)

\* the region: the first MaxRegion data sectors
RegionStart == DATABLOCK_START_SECTOR
MaxRegion == 2
Nums == 1..MaxRegion

\* bit counts around the byte and sector boundaries
BitCounts == {0, 1, 7, 8, 9, SECTOR_SIZE * 8 - 1, SECTOR_SIZE * 8, SECTOR_SIZE * 8 + 1, SECTOR_SIZE * 8 + 8, SECTOR_SIZE * 16 - 1, SECTOR_SIZE * 16}

\* the byte whose bits are those of the set S from position base on
ByteOf(S, base) ==
  LET bit(b) == IF base + b \in S THEN BitMask(b) ELSE 0
  IN bit(0) + bit(1) + bit(2) + bit(3) + bit(4) + bit(5) + bit(6) + bit(7)

\* the volume d with exactly the bits of S set in the region
SetRegion(d, S) ==
  [s \in DOMAIN d |->
     IF s >= RegionStart /\ s < RegionStart + MaxRegion
       THEN [k \in 1..SECTOR_SIZE |-> ByteOf(S, (s - RegionStart) * SECTOR_SIZE * 8 + (k - 1) * 8)]
       ELSE d[s]]

\* a call of a bitmap function on the first num sectors of the region
BitmapCall(name, num, n, r) ==
  /\ disk' = r.disk
  /\ last' = Call(name, <<>>, num, n, r.ret, <<>>)
  /\ UNCHANGED <<open_files, osErrno, live, wrote>>

\* the region is given the bits [0, k) less the bit h
Region_Fill(K, H) ==
  \E k \in K, h \in H : BitmapCall("fill", MaxRegion, k, [ret |-> 0, disk |-> SetRegion(disk, (0..(k - 1)) \ {h})])

Region_Init(N, K) ==
  \E num \in N, k \in K :
    BitmapCall("bitmap_init", num, k, [ret |-> 0, disk |-> bitmap_init(disk, RegionStart, num, k)])

Region_First_Unused(N, K) ==
  \E num \in N, k \in K :
    BitmapCall("bitmap_first_unused", num, k, bitmap_first_unused(disk, RegionStart, num, k))

Region_Reset(N, K) ==
  \E num \in N, k \in K :
    BitmapCall("bitmap_reset", num, k, bitmap_reset(disk, RegionStart, num, k))

MaxOpsBitmap == 2

NextBitmap ==
  \/ Tick(MaxOpsBitmap) /\ Region_Fill(BitCounts, BitCounts)
  \/ Tick(MaxOpsBitmap) /\ Region_Init(Nums, BitCounts)
  \/ Tick(MaxOpsBitmap) /\ Region_First_Unused(Nums, BitCounts)
  \/ Tick(MaxOpsBitmap) /\ Region_Reset(Nums, BitCounts)

SpecBitmap == Init /\ [][NextBitmap]_vars

\* the bits set in the region of the volume d
Bits(d) == {i \in 0..(Capacity(MaxRegion) - 1) : BitOf(d, RegionStart, i)}

\* the step is a call of the bitmap function name on num sectors with the
\* argument n
RegionCall(name, num, n) ==
  nops' = nops + 1 /\ last'.op = name /\ last'.fd = num /\ last'.n = n

\* a bitmap of k bits takes num sectors, and no fewer
Fits(k, num) == Capacity(num - 1) < k /\ k <= Capacity(num)

Lowest(S) == CHOOSE i \in S : \A j \in S : i <= j

\* C25: bitmap_first_unused over a bitmap of total_bits bits in one or
\* several sectors returns the lowest index below total_bits whose bit is
\* clear and sets that bit and no other; it returns -1 only when all
\* total_bits bits are set
C25_FirstUnused ==
  [][\A num \in Nums, k \in BitCounts :
       (RegionCall("bitmap_first_unused", num, k) /\ Fits(k, num)) =>
         IF (0..(k - 1)) \subseteq Bits(disk)
           THEN last'.ret = 0 - 1
           ELSE /\ last'.ret = Lowest((0..(k - 1)) \ Bits(disk))
                /\ Bits(disk') = Bits(disk) \cup {last'.ret}]_vars

\* the part of C25 that holds: a bitmap in one sector
C25_FirstUnusedOneSector ==
  [][\A k \in BitCounts :
       (RegionCall("bitmap_first_unused", 1, k) /\ Fits(k, 1)) =>
         IF (0..(k - 1)) \subseteq Bits(disk)
           THEN last'.ret = 0 - 1
           ELSE /\ last'.ret = Lowest((0..(k - 1)) \ Bits(disk))
                /\ Bits(disk') = Bits(disk) \cup {last'.ret}]_vars

\* C26: bitmap_reset(region, index) clears bit index in the sector of the
\* region that holds it and leaves every other bit as it was; when index is
\* at or beyond the num * SECTOR_SIZE * 8 bits of the region it returns -1
\* and changes nothing
C26_Reset ==
  [][\A num \in Nums, k \in BitCounts :
       RegionCall("bitmap_reset", num, k) =>
         IF k >= Capacity(num)
           THEN last'.ret = 0 - 1 /\ disk' = disk
           ELSE last'.ret = 0 /\ Bits(disk') = Bits(disk) \ {k}]_vars

\* the part of C26 that holds: an index in the first sector of the region
C26_ResetFirstSector ==
  [][\A num \in Nums, k \in BitCounts :
       (RegionCall("bitmap_reset", num, k) /\ k < Capacity(1)) =>
         (last'.ret = 0 /\ Bits(disk') = Bits(disk) \ {k})]_vars

\* C27: bitmap_init(region, reserved_prefix) leaves exactly the bits
\* [0, reserved_prefix) set and every other bit of every sector of the region
\* clear, for every prefix up to the capacity of the region
C27_Init ==
  [][\A num \in Nums, k \in BitCounts :
       (RegionCall("bitmap_init", num, k) /\ k <= Capacity(num)) =>
         \A i \in 0..(Capacity(num) - 1) : BitOf(disk', RegionStart, i) <=> i < k]_vars

\* the part of C27 that holds: a prefix that is not a multiple of 8 and ends
\* in the first sector
C27_InitPartialByte ==
  [][\A num \in Nums, k \in BitCounts :
       (RegionCall("bitmap_init", num, k) /\ k < Capacity(1) /\ k % 8 # 0) =>
         \A i \in 0..(Capacity(num) - 1) : BitOf(disk', RegionStart, i) <=> i < k]_vars

-----------------------------------------------------------------------------
(* the swap with the last entry in remove_inode *)

\* the cells that the volume d holds in the dirent slot with logical index e
\* of the root directory, the slot being located through the inode of the
\* root on the volume d0
Slot(d, d0, e) == DirentCellsAt(d[DataOf(d0, 0, e \div DIRENTS_PER_SECTOR)], e % DIRENTS_PER_SECTOR)

\* the logical indices below n at which the root of d names the inode k
SlotsOf(d, k, n) == {j \in 0..(n - 1) : Slot(d, d, j)[DIRENT_SIZE] = k}

\* the step is a successful unlink of an entry of a root directory that
\* holds at least two entries
UnlinkOfSeveral ==
  nops' = nops + 1 /\ last'.op \in Unlinks /\ last'.ret = 0 /\ SizeOf(disk, 0) >= 2

\* C28: when remove_inode removes an entry from a directory of size >= 2, the
\* hole receives the dirent that was at logical index size - 1, also when
\* size is a multiple of DIRENTS_PER_SECTOR, and the last slot is zero in the
\* sector on disk afterwards
C28_SwapLast ==
  [][UnlinkOfSeveral =>
       \A j \in SlotsOf(disk, Resolves(disk, last'.path), SizeOf(disk, 0)) :
         /\ j < SizeOf(disk, 0) - 1 => Slot(disk', disk, j) = Slot(disk, disk, SizeOf(disk, 0) - 1)
         /\ Slot(disk', disk, SizeOf(disk, 0) - 1) = ZeroBuffer(DIRENT_SIZE)]_vars

\* the part of C28 that holds: the hole receives the last dirent when size is
\* not a multiple of DIRENTS_PER_SECTOR
C28_SwapLastMoved ==
  [][(UnlinkOfSeveral /\ SizeOf(disk, 0) % DIRENTS_PER_SECTOR # 0) =>
       \A j \in SlotsOf(disk, Resolves(disk, last'.path), SizeOf(disk, 0)) :
         j < SizeOf(disk, 0) - 1 => Slot(disk', disk, j) = Slot(disk, disk, SizeOf(disk, 0) - 1)]_vars

-----------------------------------------------------------------------------
(* allocation by two callers *)

\* the calls add_inode makes for a new inode and for a new dirent sector
AllocCalls == {<<INODE_BITMAP_START_SECTOR, INODE_BITMAP_SECTORS, INODE_BITMAP_SIZE>>, <<SECTOR_BITMAP_START_SECTOR, SECTOR_BITMAP_SECTORS, SECTOR_BITMAP_SIZE>>}

MaxAllocs == 4

\* one more step of a caller; no more than MaxAllocs calls are made
Step == UNCHANGED <<open_files, osErrno, last, live, wrote, nops, backstore, bs_filename>>

InFlight == {c \in Callers : callers[c].pc # "idle"}

NextRace ==
  \/ Step /\ Len(got) + Cardinality(InFlight) < MaxAllocs /\ \E c \in Callers, b \in AllocCalls : Alloc_Call(c, b)
  \/ Step /\ \E c \in Callers : Alloc_Read(c)
  \/ Step /\ \E c \in Callers : Alloc_Write(c)

SpecRace == Init /\ [][NextRace]_vars

\* two calls on the same bitmap returned the same index
SameIndex == \E i, j \in DOMAIN got : i < j /\ got[i] = got[j] /\ got[i][2] >= 0

\* C29: when every call of bitmap_first_unused runs to completion before the
\* next one starts, no two allocations return the same index (no bit is
\* cleared in between); two callers whose calls interleave between the
\* sector read and the sector write can both be returned the same index
C29_SerialDistinct == serial => ~SameIndex

\* two interleaved calls returned the same index
C29_Witness == SameIndex /\ ~serial /\ InFlight = {}

-----------------------------------------------------------------------------
(* several descriptors of one file *)

\* one file, opened, written, read, sought and closed through any descriptor
MaxOpsCursor == 6

NextCursor ==
  \/ Tick(MaxOpsCursor) /\ File_Create({PathA})
  \/ Tick(MaxOpsCursor) /\ File_Open({PathA})
  \/ Tick(MaxOpsCursor) /\ File_Write(FDs, {1, SECTOR_SIZE})
  \/ Tick(MaxOpsCursor) /\ File_Read(FDs, {1})
  \/ Tick(MaxOpsCursor) /\ File_Seek(FDs, {0, 1})
  \/ Tick(MaxOpsCursor) /\ File_Close(FDs)

SpecCursor == Init /\ [][NextCursor]_vars

\* the step is a call of one of the operations of ops on the descriptor fd
FdCall(ops, fd) == nops' = nops + 1 /\ last'.op \in ops /\ last'.fd = fd

\* the descriptors other than fd that are open on the file of fd
Others(fd) == {o \in InUse(open_files) \ {fd} : open_files[o].inode = open_files[fd].inode}

\* C30: File_Read, File_Write and File_Seek through one descriptor leave the
\* cursor of every other descriptor as it was, those of the same file
\* included; File_Close of one descriptor leaves every other descriptor open,
\* with its cursor, and a later File_Read, File_Write or File_Seek through
\* an open descriptor does not fail with E_BAD_FD
C30_Cursors ==
  [][\A fd \in FDs :
       /\ FdCall({"File_Read", "File_Write", "File_Seek"}, fd) =>
            \A o \in FDs \ {fd} : open_files'[o].pos = open_files[o].pos /\ open_files'[o].inode = open_files[o].inode
       /\ FdCall({"File_Close"}, fd) =>
            \A o \in FDs \ {fd} : open_files'[o] = open_files[o]
       /\ (FdCall({"File_Read", "File_Write", "File_Seek"}, fd) /\ fd \in InUse(open_files)) =>
            ~(last'.ret = 0 - 1 /\ osErrno' = E_BAD_FD)]_vars

\* two descriptors of one file with different cursors, after a File_Seek
\* through one of them
C30_Witness ==
  /\ last.op = "File_Seek" /\ last.ret = 1
  /\ InUse(open_files) = FDs
  /\ \A fd \in FDs : Others(fd) # {}
  /\ \E fd \in FDs : open_files[fd].pos > 1

-----------------------------------------------------------------------------
(* the indices of an inode's data array *)

\* the step is a call op(fd, n)
FdCallOf(op, fd, n) == nops' = nops + 1 /\ last'.op = op /\ last'.fd = fd /\ last'.n = n

\* C31: no operation reaches data[i] of an inode with i >= MAX_SECTORS_PER_FILE:
\* File_Read and File_Write stay below that index, and a create in a root
\* directory that holds MAX_SECTORS_PER_FILE * DIRENTS_PER_SECTOR entries fails
C31_DataIndex ==
  [][\A fd \in FDs, n \in ReadSizes \cup {SECTOR_SIZE, MAX_FILE_SIZE}, g \in Garbage :
       /\ FdCallOf("File_Read", fd, n) =>
            File_Read_fn(disk, open_files, fd, ZeroBuffer(n), n, g).top < MAX_SECTORS_PER_FILE
       /\ FdCallOf("File_Write", fd, n) =>
            File_Write_fn(disk, open_files, fd, n, g).top < MAX_SECTORS_PER_FILE
       /\ (nops' = nops + 1 /\ last'.op \in Creates
             /\ SizeOf(disk, 0) >= MAX_SECTORS_PER_FILE * DIRENTS_PER_SECTOR) => last'.ret = 0 - 1]_vars

\* the part of C31 that holds: File_Write stays below data[MAX_SECTORS_PER_FILE]
C31_DataIndexWrite ==
  [][\A fd \in FDs, n \in {SECTOR_SIZE, MAX_FILE_SIZE}, g \in Garbage :
       FdCallOf("File_Write", fd, n) =>
         File_Write_fn(disk, open_files, fd, n, g).top < MAX_SECTORS_PER_FILE]_vars

\* no root directory ever holds MAX_SECTORS_PER_FILE * DIRENTS_PER_SECTOR
\* entries: the inodes run out first
C31_DirNeverFull == SizeOf(disk, 0) < MAX_SECTORS_PER_FILE * DIRENTS_PER_SECTOR

-----------------------------------------------------------------------------
(* the owners of the data sectors *)

\* files created, written, closed and removed again
SharePaths == {PathA, PathB}
MaxOpsShare == 8

NextShare ==
  \/ Tick(MaxOpsShare) /\ File_Create(SharePaths)
  \/ Tick(MaxOpsShare) /\ File_Open(SharePaths)
  \/ Tick(MaxOpsShare) /\ File_Write(FDs, {SECTOR_SIZE})
  \/ Tick(MaxOpsShare) /\ File_Close(FDs)
  \/ Tick(MaxOpsShare) /\ File_Unlink(SharePaths)

SpecShare == Init /\ [][NextShare]_vars

\* the inodes in use on the volume d: those whose bit is set and those an
\* entry of the root names
LiveInodes(d) == {k \in 0..(MAX_FILES - 1) : InodeBit(d, k) \/ k \in {e[2] : e \in Entries(d, 0)}}

\* the elements <<k, j>> of the data arrays of the inodes of K that name a
\* sector
Holders(d, K) == {h \in K \X (0..(MAX_SECTORS_PER_FILE - 1)) : DataOf(d, h[1], h[2]) > 0}

\* no two elements of the data arrays of the inodes of K name the same sector
NoSharing(d, K) == \A h1, h2 \in Holders(d, K) : DataOf(d, h1[1], h1[2]) = DataOf(d, h2[1], h2[2]) => h1 = h2

\* C32: no data sector is named by two different live inodes, nor twice by
\* one inode
C32_NoSharedSector == NoSharing(disk, LiveInodes(disk))

\* the same for every inode of the table, live or not
C32_NoSharedSectorAny == NoSharing(disk, 0..(MAX_FILES - 1))

\* a write has just handed a sector to a file while the root and another
\* file hold one each: the three allocatable data sectors have three owners
C32_Witness ==
  /\ last.op = "File_Write" /\ last.ret = SECTOR_SIZE
  /\ Cardinality(Holders(disk, LiveInodes(disk))) = 3
  /\ Cardinality({p \in SharePaths : RegularFile(disk, p) /\ SizeOf(disk, Resolves(disk, p)) = SECTOR_SIZE}) = 2

-----------------------------------------------------------------------------
(* a create undone by an unlink *)

\* the inode bitmap and the sector bitmap of the volume d
InodeBitmapOf(d) == [i \in 0..(MAX_FILES - 1) |-> InodeBit(d, i)]
SectorBitmapOf(d) == [s \in 0..(TOTAL_SECTORS - 1) |-> SectorBit(d, s)]

\* what File_Unlink(p) (type 0) or Dir_Unlink(p) (type 1) gets from
\* remove_inode on the volume d once follow_path returned f
UnlinkOn(d, type, f, g) == remove_inode(d, type, f.ret, f.last_inode, g)

\* the unlink of p that follows its create at once: the path resolves and no
\* descriptor holds the inode
UnlinkAfter(d, of, type, p, g) ==
  IF Resolves(d, p) > 0 /\ ~is_file_open(of, Resolves(d, p))
    THEN UnlinkOn(d, type, follow_path(d, p), g)
    ELSE [ret |-> 0 - 1, disk |-> d]

\* the step is the successful call op(p)
CreateCall(op, p) == PathCall(op, p) /\ last'.ret = 0

\* a successful unlink r leaves the bitmaps of the volume d0
Restored(d0, r) ==
  r.ret = 0 => InodeBitmapOf(r.disk) = InodeBitmapOf(d0) /\ SectorBitmapOf(r.disk) = SectorBitmapOf(d0)

RestoredInodes(d0, r) == r.ret = 0 => InodeBitmapOf(r.disk) = InodeBitmapOf(d0)

\* C33: a successful File_Create(p) or Dir_Create(p) followed at once by a
\* successful File_Unlink(p) or Dir_Unlink(p) leaves the inode bitmap and the
\* sector bitmap as they were before the create
C33_CreateUnlink ==
  [][\A p \in DirPaths, g \in Garbage :
       /\ CreateCall("File_Create", p) => Restored(disk, UnlinkAfter(disk', open_files', 0, p, g))
       /\ CreateCall("Dir_Create", p) => Restored(disk, UnlinkAfter(disk', open_files', 1, p, g))]_vars

\* the inode bitmap alone is as it was before the create
C33_CreateUnlinkInodes ==
  [][\A p \in DirPaths, g \in Garbage :
       /\ CreateCall("File_Create", p) => RestoredInodes(disk, UnlinkAfter(disk', open_files', 0, p, g))
       /\ CreateCall("Dir_Create", p) => RestoredInodes(disk, UnlinkAfter(disk', open_files', 1, p, g))]_vars

\* both bitmaps are as they were when the create took no new sector for the
\* parent directory
C33_CreateUnlinkSameGroup ==
  [][\A p \in DirPaths, g \in Garbage :
       SizeOf(disk, 0) % DIRENTS_PER_SECTOR # 0 =>
         /\ CreateCall("File_Create", p) => Restored(disk, UnlinkAfter(disk', open_files', 0, p, g))
         /\ CreateCall("Dir_Create", p) => Restored(disk, UnlinkAfter(disk', open_files', 1, p, g))]_vars

-----------------------------------------------------------------------------
(* the cached sizes *)

\* C34: the size cached in every open-file-table entry in use equals the size
\* of the inode the entry names, also with several descriptors on one file
C34_CachedSize == \A fd \in InUse(open_files) : open_files[fd].size = SizeOf(disk, open_files[fd].inode)

\* the entry through which a write was just made, and the entry that an open
\* just filled, hold the inode's size
C34_CachedSizeOwn ==
  [][\A fd \in FDs :
       (nops' = nops + 1 /\ last'.op \in {"File_Write", "File_Open"} /\ last'.fd = fd /\ last'.ret >= 0)
         => open_files'[fd].size = SizeOf(disk', open_files'[fd].inode)]_vars
====
